---------------------------- MODULE Spec2Model ----------------------------
(***************************************************************************)
(* Model of the query compiler of clickhouse_gdc_v2                        *)
(* (src/src/sql/query_builder.rs) and of the raw / explain routes.         *)
(*                                                                         *)
(* A request is compiled by QueryBuilder::build_sql_statement into one     *)
(* SQL AST.  The AST, the request and the builder's scratch state          *)
(* (parameters, parameter_index) are modelled as TLA+ records; every       *)
(* function of the compiler is an operator that threads the builder        *)
(* through its calls exactly in the order the Rust code makes them.        *)
(*                                                                         *)
(* Conventions                                                             *)
(*   Option<T>        None / Some(x)                                       *)
(*   IndexMap<K, V>   a sequence of entries [k |-> key, v |-> value]       *)
(*   Result<T, E>     [ok |-> TRUE, val, st]  or  [ok |-> FALSE, panic, err] *)
(*   u64              four 16-bit limbs, most significant first            *)
(***************************************************************************)
EXTENDS Integers, Sequences, FiniteSets, TLC

VARIABLES
    pc,               \* "idle" | "binding" | "done" | "executing" | "failed"
    builder,          \* QueryBuilder { request, bind_params, parameters,
                      \*                parameter_index }
    bound,            \* history: the BoundParams passed to bind_parameter so far
    emitted,          \* history: the expressions bind_parameter returned so far
    statement,        \* outcome of build_sql_statement
    overflow_checks,  \* build profile: TRUE = debug (checked arithmetic)
    route,            \* the request a route handler received, if any
    executed          \* the query string a route passed to execute_query

vars ==
    <<pc, builder, bound, emitted, statement, overflow_checks, route, executed>>

-----------------------------------------------------------------------------
(* Option, IndexMap, Result *)

None == [some |-> FALSE]
Some(x) == [some |-> TRUE, v |-> x]

Entry(key, value) == [k |-> key, v |-> value]

\* IndexMap::keys / values: in insertion order
Keys(m) == [i \in 1..Len(m) |-> m[i].k]
Values(m) == [i \in 1..Len(m) |-> m[i].v]

IndexOfKey(m, key) ==
    IF \E i \in 1..Len(m) : m[i].k = key
      THEN CHOOSE i \in 1..Len(m) : m[i].k = key
      ELSE 0

\* IndexMap::insert: a new key is appended; an existing key keeps its place
\* and has its value replaced
IndexMapInsert(m, key, value) ==
    LET i == IndexOfKey(m, key) IN
    IF i = 0 THEN Append(m, Entry(key, value))
             ELSE [m EXCEPT ![i] = Entry(key, value)]

Ok(x, st) == [ok |-> TRUE, val |-> x, st |-> st]
Err(e, st) == [ok |-> FALSE, panic |-> FALSE, err |-> e, st |-> st]
\* the `?` operator: an error (or a panic) of `result` is returned at once,
\* otherwise the rest of the function goes on with it
Try(result, Rest(_)) == IF result.ok THEN Rest(result) ELSE result

\* let x = value; rest
With(value, Rest(_)) == Rest(value)

\* a Rust panic unwinding through the compile: no value is returned at all
Panic(msg, st) ==
    [ok |-> FALSE, panic |-> TRUE, err |-> [kind |-> "panic", msg |-> msg],
     st |-> st]

-----------------------------------------------------------------------------
(* u64 arithmetic: serde_json::Number::as_u64 values *)

LimbBase == 2^16

U64(n) == <<0, 0, 0, n>>
U64Max == <<LimbBase - 1, LimbBase - 1, LimbBase - 1, LimbBase - 1>>

\* sum of two u64: the wrapped (mod 2^64) value and whether it overflowed
U64Add(a, b) ==
    LET s4 == a[4] + b[4]
        s3 == a[3] + b[3] + (s4 \div LimbBase)
        s2 == a[2] + b[2] + (s3 \div LimbBase)
        s1 == a[1] + b[1] + (s2 \div LimbBase)
    IN [value |-> <<s1 % LimbBase, s2 % LimbBase, s3 % LimbBase, s4 % LimbBase>>,
        overflow |-> s1 >= LimbBase]

-----------------------------------------------------------------------------
(* SQL AST (super::ast) *)

Quoted(s) == [value |-> s, quoted |-> TRUE]
Unquoted(s) == [value |-> s, quoted |-> FALSE]

Identifier(id) == [e |-> "Identifier", ident |-> id]
CompoundIdentifier(ids) == [e |-> "CompoundIdentifier", idents |-> ids]
ValueExpr(val) == [e |-> "Value", value |-> val]
VNumber(n) == [v |-> "Number", n |-> n]
VString(s) == [v |-> "SingleQuotedString", s |-> s]
VBoolean(b) == [v |-> "Boolean", b |-> b]
VNull == [v |-> "Null"]
VPlaceholder(s) == [v |-> "Placeholder", s |-> s]
BinaryOp(l, o, r) == [e |-> "BinaryOp", left |-> l, op |-> o, right |-> r]
UnaryOp(o, x) == [e |-> "UnaryOp", op |-> o, expr |-> x]
Nested(x) == [e |-> "Nested", expr |-> x]
IsNull(x) == [e |-> "IsNull", expr |-> x]
InList(x, l) == [e |-> "InList", expr |-> x, list |-> l]
Wildcard == [e |-> "Wildcard"]
FunctionExpr(n, a, o, d) ==
    [e |-> "Function", name |-> n, args |-> a, over |-> o, distinct |-> d]

ExprWithAlias(x, a) == [s |-> "ExprWithAlias", expr |-> x, alias |-> a]
UnnamedExpr(x) == [s |-> "UnnamedExpr", expr |-> x]

TableFactorTable(n, a) == [t |-> "Table", name |-> n, alias |-> a]
TableFactorDerived(q, a) == [t |-> "Derived", subquery |-> q, alias |-> a]
TableFactorFunction(f, a) == [t |-> "TableFunction", function |-> f, alias |-> a]

LeftOuterOn(x) == [j |-> "LeftOuter", on |-> x]
CrossJoin == [j |-> "CrossJoin"]
FullOuterUsing(cols) == [j |-> "FullOuter", using |-> cols]
Join(rel, jop) == [relation |-> rel, join_operator |-> jop]
TableWithJoins(rel, js) == [relation |-> rel, joins |-> js]

OrderByExpr(x, a, nf) == [expr |-> x, asc |-> a, nulls_first |-> nf]

\* Query::new() followed by the builder-style setters
QueryNew ==
    [projection |-> <<>>, from |-> <<>>, predicate |-> None,
     group_by |-> <<>>, order_by |-> <<>>, limit |-> None]

\* ObjectName(table.iter().map(Ident::quoted).collect())
ObjectNameQuoted(table) == [i \in 1..Len(table) |-> Quoted(table[i])]

-----------------------------------------------------------------------------
(* free helper functions of query_builder.rs *)

sql_function(name, args) ==
    FunctionExpr(<<Unquoted(name)>>, args, None, FALSE)

function_name(function) ==
    CASE function = "Max" -> "max"
      [] function = "Min" -> "min"
      [] function = "StddevPop" -> "stddevPop"
      [] function = "StddevSamp" -> "stddevSamp"
      [] function = "Sum" -> "sum"
      [] function = "VarPop" -> "varPop"
      [] function = "VarSamp" -> "varSamp"
      [] function = "Longest" -> "longest"
      [] function = "Shortest" -> "shortest"

and_reducer(left, right) == BinaryOp(left, "And", right)
or_reducer(left, right) == BinaryOp(left, "Or", right)

\* every function emitted under its own lower-case name
single_column_aggregate_by_name(function, column) ==
    sql_function(function_name(function), <<column>>)

single_column_aggregate(function, column) ==
    CASE function = "Max" -> sql_function("max", <<column>>)
      [] function = "Min" -> sql_function("min", <<column>>)
      [] function = "StddevPop" -> sql_function("stddevPop", <<column>>)
      [] function = "StddevSamp" -> sql_function("stddevSamp", <<column>>)
      [] function = "Sum" -> sql_function("sum", <<column>>)
      [] function = "VarPop" -> sql_function("varPop", <<column>>)
      [] function = "VarSamp" -> sql_function("varSamp", <<column>>)
      [] function = "Longest" ->
            sql_function("max", <<sql_function("length", <<column>>)>>)
      [] function = "Shortest" ->
            sql_function("min", <<sql_function("length", <<column>>)>>)

\* Iterator::reduce(and_reducer).unwrap_or(TRUE literal) over a sequence of Expr
RECURSIVE ReduceAndFrom(_, _, _)
ReduceAndFrom(acc, exprs, i) ==
    IF i > Len(exprs) THEN acc
    ELSE ReduceAndFrom(and_reducer(acc, exprs[i]), exprs, i + 1)

ReduceAnd(exprs) ==
    IF Len(exprs) = 0 THEN None ELSE Some(ReduceAndFrom(exprs[1], exprs, 2))

UnwrapOr(opt, default) == IF opt.some THEN opt.v ELSE default

\* Vec<String>::join(sep)
RECURSIVE JoinStrings(_, _)
JoinStrings(strs, sep) ==
    IF Len(strs) = 0 THEN ""
    ELSE IF Len(strs) = 1 THEN strs[1]
    ELSE strs[1] \o sep \o JoinStrings(Tail(strs), sep)

-----------------------------------------------------------------------------
(* Type-cast encoder *)

ScalarTypes ==
    {"Bool", "String", "FixedString", "UInt8", "UInt16", "UInt32", "UInt64",
     "UInt128", "UInt256", "Int8", "Int16", "Int32", "Int64", "Int128",
     "Int256", "Float32", "Float64", "Decimal", "Date", "Date32", "DateTime",
     "DateTime64", "Json", "Uuid", "IPv4", "IPv6", "Complex"}

\* a mapping that wraps every tag's own name
type_cast_string_own_name(scalar_type) == "Nullable(" \o scalar_type \o ")"

type_cast_string(scalar_type) ==
    CASE scalar_type = "Bool" -> "Nullable(Bool)"
      [] scalar_type = "String" -> "Nullable(String)"
      [] scalar_type = "FixedString" -> "Nullable(FixedString)"
      [] scalar_type = "UInt8" -> "Nullable(UInt8)"
      [] scalar_type = "UInt16" -> "Nullable(UInt16)"
      [] scalar_type = "UInt32" -> "Nullable(UInt32)"
      [] scalar_type = "UInt64" -> "Nullable(UInt64)"
      [] scalar_type = "UInt128" -> "Nullable(UInt128)"
      [] scalar_type = "UInt256" -> "Nullable(UInt256)"
      [] scalar_type = "Int8" -> "Nullable(Int8)"
      [] scalar_type = "Int16" -> "Nullable(Int16)"
      [] scalar_type = "Int32" -> "Nullable(Int32)"
      [] scalar_type = "Int64" -> "Nullable(Int64)"
      [] scalar_type = "Int128" -> "Nullable(Int128)"
      [] scalar_type = "Int256" -> "Nullable(Int256)"
      [] scalar_type = "Float32" -> "Nullable(Float32)"
      [] scalar_type = "Float64" -> "Nullable(Float64)"
      [] scalar_type = "Decimal" -> "Nullable(String)"
      [] scalar_type = "Date" -> "Nullable(Date)"
      [] scalar_type = "Date32" -> "Nullable(Date32)"
      [] scalar_type = "DateTime" -> "Nullable(DateTime)"
      [] scalar_type = "DateTime64" -> "Nullable(DateTime64(9))"
      [] scalar_type = "Json" -> "Nullable(JSON)"
      [] scalar_type = "Uuid" -> "Nullable(UUID)"
      [] scalar_type = "IPv4" -> "Nullable(IPv4)"
      [] scalar_type = "IPv6" -> "Nullable(IPv6)"
      [] scalar_type = "Complex" -> "Nullable(String)"

aggregate_type(aggregate) ==
    CASE aggregate.k = "ColumnCount" -> "UInt32"
      [] aggregate.k = "StarCount" -> "UInt32"
      [] aggregate.k = "SingleColumn" -> type_cast_string(aggregate.result_type)

aggregates_object_type(aggregates) ==
    IF Len(aggregates) = 0 THEN "Map(Nothing, Nothing)"
    ELSE "Tuple(" \o
         JoinStrings([i \in 1..Len(aggregates) |->
                        "\"" \o aggregates[i].k \o "\" "
                             \o aggregate_type(aggregates[i].v)], ", ")
         \o ")"

RECURSIVE query_object_type(_)
RECURSIVE rows_object_type(_)

field_type(field) ==
    CASE field.k = "Column" -> type_cast_string(field.column_type)
      [] field.k = "Relationship" -> query_object_type(field.query)

\* a row tuple written Tuple(...) whatever the number of fields
rows_object_type_always_tuple(fields) ==
    "Tuple(" \o
    JoinStrings([i \in 1..Len(fields) |->
                   "\"" \o fields[i].k \o "\" " \o field_type(fields[i].v)],
                ", ")
    \o ")"

rows_object_type(fields) ==
    IF Len(fields) = 0 THEN "Map(Nothing, Nothing)"
    ELSE "Tuple(" \o
         JoinStrings([i \in 1..Len(fields) |->
                        "\"" \o fields[i].k \o "\" " \o field_type(fields[i].v)],
                     ", ")
         \o ")"

query_object_type(query) ==
    CASE ~query.fields.some /\ ~query.aggregates.some -> "Map(Nothing, Nothing)"
      [] query.fields.some /\ ~query.aggregates.some ->
            "Tuple(rows Array(" \o rows_object_type(query.fields.v) \o "))"
      [] ~query.fields.some /\ query.aggregates.some ->
            "Tuple(aggregates " \o aggregates_object_type(query.aggregates.v) \o ")"
      [] query.fields.some /\ query.aggregates.some ->
            "Tuple(rows Array(" \o rows_object_type(query.fields.v)
                \o "), aggregates "
                \o aggregates_object_type(query.aggregates.v) \o ")"

\* a root cast type that ignores foreach
foreach_object_type_unwrapped(query) == query_object_type(query)

foreach_object_type(query) ==
    "Tuple(rows Array(Tuple(query " \o query_object_type(query) \o ")))"

-----------------------------------------------------------------------------
(* Parameter binder *)

\* QueryBuilder::new
QueryBuilderNew(request, bind_params) ==
    [request |-> request, bind_params |-> bind_params,
     parameters |-> <<>>, parameter_index |-> 0]

\* the literal an unbound (inlined) parameter becomes
InlineValue(param) ==
    IF param.k = "Number" THEN ValueExpr(VNumber(param.number))
    ELSE CASE param.value.j = "Number" -> ValueExpr(VNumber(param.value.n))
           [] param.value.j = "String" -> ValueExpr(VString(param.value.s))
           [] param.value.j = "Bool" -> ValueExpr(VBoolean(param.value.b))
           [] param.value.j = "Null" -> ValueExpr(VNull)
           [] param.value.j = "Array" -> ValueExpr(VString(param.value.text))
           [] param.value.j = "Object" -> ValueExpr(VString(param.value.text))

\* a binder that never advances parameter_index: every bind would reuse
\* __placeholder__0 and overwrite its entry
bind_parameter_same_index(st, param) ==
    IF st.bind_params
      THEN LET placeholder_string ==
                   "__placeholder__" \o ToString(st.parameter_index)
           IN [val |-> ValueExpr(VPlaceholder(placeholder_string)),
               st |-> [st EXCEPT
                         !.parameters =
                            IndexMapInsert(st.parameters, placeholder_string, param)]]
      ELSE [val |-> InlineValue(param), st |-> st]

\* QueryBuilder::bind_parameter: [val |-> the expression, st |-> the builder]
\* a binder that binds whatever bind_params says
bind_parameter_always_binds(st, param) ==
    LET placeholder_string == "__placeholder__" \o ToString(st.parameter_index)
    IN [val |-> ValueExpr(VPlaceholder(placeholder_string)),
        st |-> [st EXCEPT
                  !.parameter_index = st.parameter_index + 1,
                  !.parameters =
                     IndexMapInsert(st.parameters, placeholder_string, param)]]

bind_parameter(st, param) ==
    IF st.bind_params
      THEN LET placeholder_string ==
                   "__placeholder__" \o ToString(st.parameter_index)
           IN [val |-> ValueExpr(VPlaceholder(placeholder_string)),
               st |-> [st EXCEPT
                         !.parameter_index = st.parameter_index + 1,
                         !.parameters =
                            IndexMapInsert(st.parameters, placeholder_string, param)]]
      ELSE [val |-> InlineValue(param), st |-> st]

-----------------------------------------------------------------------------
(* Relationship lookup and comparison columns *)

\* a lookup that takes the relationship from whichever table declares it
table_relationship_any_table(st, table, relationship_name) ==
    LET trs == st.request.table_relationships
        found == {i \in 1..Len(trs) :
                     IndexOfKey(trs[i].relationships, relationship_name) # 0}
    IN IF found = {} THEN Err([kind |-> "TableMissing", table |-> table], st)
       ELSE LET source_table ==
                    trs[CHOOSE i \in found : \A j \in found : i <= j]
            IN Ok(source_table.relationships[
                     IndexOfKey(source_table.relationships, relationship_name)].v,
                  st)

\* QueryBuilder::table_relationship: Ok(relationship) or Err
table_relationship(st, table, relationship_name) ==
    LET trs == st.request.table_relationships
        found == {i \in 1..Len(trs) : trs[i].source_table = table}
    IN IF found = {} THEN Err([kind |-> "TableMissing", table |-> table], st)
       ELSE LET source_table ==
                    trs[CHOOSE i \in found : \A j \in found : i <= j]
                r == IndexOfKey(source_table.relationships, relationship_name)
            IN IF r = 0
                 THEN Err([kind |-> "RelationshipMissingInTable",
                           relationship |-> relationship_name, table |-> table], st)
                 ELSE Ok(source_table.relationships[r].v, st)

\* a column compiled whatever its path
comparison_column_any_path(st, table_alias, column) ==
    Ok(CompoundIdentifier(<<Quoted(table_alias), Quoted(column.name)>>), st)

\* QueryBuilder::comparison_column
comparison_column(st, table_alias, column) ==
    IF column.path.some /\ Len(column.path.v) # 0
      THEN Err([kind |-> "UnsupportedColumnComparisonPath", path |-> column.path.v],
               st)
      ELSE Ok(CompoundIdentifier(<<Quoted(table_alias), Quoted(column.name)>>), st)

\* an IN list bound as one parameter instead of one per element
BindListAsOne(st, values, value_type, i, acc) ==
    IF Len(values) = 0 THEN [val |-> acc, st |-> st]
    ELSE With(bind_parameter(st, [k |-> "Value", value |-> values[1],
                                  value_type |-> value_type]),
              LAMBDA b : [val |-> <<b.val>>, st |-> b.st])

\* the values of an IN list, bound one after the other
RECURSIVE BindList(_, _, _, _, _)
BindList(st, values, value_type, i, acc) ==
    IF i > Len(values) THEN [val |-> acc, st |-> st]
    ELSE With(bind_parameter(st, [k |-> "Value", value |-> values[i],
                                  value_type |-> value_type]),
              LAMBDA b : BindList(b.st, values, value_type, i + 1,
                                  Append(acc, b.val)))

BinaryOperatorOf(operator) ==
    CASE operator = "LessThan" -> "Lt"
      [] operator = "LessThanOrEqual" -> "LtEq"
      [] operator = "Equal" -> "Eq"
      [] operator = "GreaterThan" -> "Gt"
      [] operator = "GreaterThanOrEqual" -> "GtEq"

\* the correlation predicate of an EXISTS over a related table:
\* <join_alias>.<target> = <table_alias>.<source> for every mapping entry,
\* and-reduced, parenthesised when it is a conjunction, TRUE when empty
ExistsRelatedExpr(relationship, join_alias, table_alias) ==
    LET cm == relationship.column_mapping
        eqs == [i \in 1..Len(cm) |->
                  BinaryOp(CompoundIdentifier(<<Quoted(join_alias), Quoted(cm[i].v)>>),
                           "Eq",
                           CompoundIdentifier(<<Quoted(table_alias), Quoted(cm[i].k)>>))]
        red == ReduceAnd(eqs)
    IN IF ~red.some THEN ValueExpr(VBoolean(TRUE))
       ELSE IF red.v.e = "BinaryOp" /\ red.v.op = "And" THEN Nested(red.v)
       ELSE red.v

\* <join_alias>."_exists" = TRUE
ExistsUnrelatedExpr(join_alias) ==
    BinaryOp(CompoundIdentifier(<<Quoted(join_alias), Quoted("_exists")>>),
             "Eq", ValueExpr(VBoolean(TRUE)))

\* a fold that never parenthesises its result
FoldSelectionsBare(items, op, empty) ==
    IF Len(items) = 0 THEN [expr |-> ValueExpr(VBoolean(empty)), joins |-> <<>>]
    ELSE [expr |-> BinaryOp(items[1].expr, op, items[Len(items)].expr),
          joins |-> <<>>]

\* reduce of the children of And / Or: pairwise, left to right; the joins of
\* the children concatenated in child order
RECURSIVE ReduceSelections(_, _, _, _)
ReduceSelections(acc, items, i, op) ==
    IF i > Len(items) THEN acc
    ELSE ReduceSelections(
            [expr |-> BinaryOp(acc.expr, op, items[i].expr),
             joins |-> acc.joins \o items[i].joins],
            items, i + 1, op)

FoldSelections(items, op, empty) ==
    IF Len(items) = 0 THEN [expr |-> ValueExpr(VBoolean(empty)), joins |-> <<>>]
    ELSE LET r == ReduceSelections(items[1], items, 2, op)
         IN IF r.expr.e = "BinaryOp" /\ r.expr.op = op
              THEN [expr |-> Nested(r.expr), joins |-> r.joins]
              ELSE r

-----------------------------------------------------------------------------
(* Selection compilation: predicate -> [expr, joins, exists_index] *)

RECURSIVE selection_expression(_, _, _, _, _, _)
RECURSIVE SelectionChildren(_, _, _, _, _, _, _, _)

\* children that each start from the counter their parent was given
RECURSIVE SelectionChildrenOwnCounter(_, _, _, _, _, _, _, _)
SelectionChildrenOwnCounter(st, expressions, i, exists_index, origin, table_alias, table, acc) ==
    IF i > Len(expressions)
      THEN Ok([items |-> acc, exists_index |-> exists_index], st)
      ELSE Try(selection_expression(st, expressions[i], exists_index,
                                    origin, table_alias, table),
               LAMBDA r :
                 SelectionChildrenOwnCounter(
                    r.st, expressions, i + 1, exists_index, origin, table_alias,
                    table, Append(acc, [expr |-> r.val.expr,
                                        joins |-> r.val.joins])))

\* expressions.iter().map(selection_expression).collect::<Result<Vec<_>, _>>():
\* the children in order, the counter shared, stopping at the first error
SelectionChildren(st, expressions, i, exists_index, origin, table_alias, table, acc) ==
    IF i > Len(expressions)
      THEN Ok([items |-> acc, exists_index |-> exists_index], st)
      ELSE Try(selection_expression(st, expressions[i], exists_index,
                                    origin, table_alias, table),
               LAMBDA r :
                 SelectionChildren(r.st, expressions, i + 1, r.val.exists_index,
                                   origin, table_alias, table,
                                   Append(acc, [expr |-> r.val.expr,
                                                joins |-> r.val.joins])))

\* Exists with origin = true: a derived sub-query joined as _exists_<n>
ExistsOrigin(st, in_table, selection, exists_index, table_alias, table) ==
    LET join_alias == "_exists_" \o ToString(exists_index)
        next_index == exists_index + 1
    IN Try(IF in_table.k = "RelatedTable"
             THEN table_relationship(st, table, in_table.relationship)
             ELSE Ok(None, st),
       LAMBDA rel :
       LET related == in_table.k = "RelatedTable"
           cm == IF related THEN rel.val.column_mapping ELSE <<>>
           select_expr ==
               IF related THEN ExistsRelatedExpr(rel.val, join_alias, table_alias)
                          ELSE ExistsUnrelatedExpr(join_alias)
           join_expr ==
               IF related THEN select_expr ELSE ValueExpr(VBoolean(TRUE))
           table_name == IF related THEN rel.val.target_table ELSE in_table.table
           projection ==
               IF related
                 THEN [i \in 1..Len(cm) |->
                         ExprWithAlias(
                            CompoundIdentifier(<<Quoted(join_alias), Quoted(cm[i].v)>>),
                            Quoted(cm[i].v))]
                 ELSE <<ExprWithAlias(ValueExpr(VBoolean(TRUE)), Quoted("_exists"))>>
           group_by ==
               IF related
                 THEN [i \in 1..Len(cm) |->
                         CompoundIdentifier(<<Quoted(join_alias), Quoted(cm[i].v)>>)]
                 ELSE <<>>
           limit == IF related THEN None ELSE Some(ValueExpr(VNumber(U64(1))))
       \* let mut subquery_exists_index = 0;
       IN Try(selection_expression(st, selection, 0, FALSE, join_alias, table_name),
          LAMBDA sub :
          LET from == <<TableWithJoins(
                          TableFactorTable(ObjectNameQuoted(table_name),
                                           Some(Quoted(join_alias))),
                          sub.val.joins)>>
              subquery == [QueryNew EXCEPT !.projection = projection,
                                           !.from = from,
                                           !.predicate = Some(sub.val.expr),
                                           !.group_by = group_by,
                                           !.limit = limit]
              join == Join(TableFactorDerived(subquery, Some(Quoted(join_alias))),
                           LeftOuterOn(join_expr))
          IN Ok([expr |-> select_expr, joins |-> <<join>>,
                 exists_index |-> next_index], sub.st)))

\* an Exists below an Exists compiled like one at the top of a selection
ExistsNestedAsOrigin(st, in_table, selection, exists_index, table_alias, table) ==
    ExistsOrigin(st, in_table, selection, exists_index, table_alias, table)

\* Exists with origin = false: the target table itself joined as <alias>.<n>
ExistsNested(st, in_table, selection, exists_index, table_alias, table) ==
    LET join_alias == table_alias \o "." \o ToString(exists_index)
        next_index == exists_index + 1
    IN Try(IF in_table.k = "RelatedTable"
             THEN table_relationship(st, table, in_table.relationship)
             ELSE Ok(None, st),
       LAMBDA rel :
       LET related == in_table.k = "RelatedTable"
           select_expr ==
               IF related THEN ExistsRelatedExpr(rel.val, join_alias, table_alias)
                          ELSE ExistsUnrelatedExpr(join_alias)
           join_expr ==
               IF related THEN select_expr ELSE ValueExpr(VBoolean(TRUE))
           table_name == IF related THEN rel.val.target_table ELSE in_table.table
       IN Try(selection_expression(st, selection, next_index, FALSE,
                                   join_alias, table_name),
          LAMBDA sub :
          LET join == Join(TableFactorTable(ObjectNameQuoted(table_name),
                                            Some(Quoted(join_alias))),
                           LeftOuterOn(join_expr))
          IN Ok([expr |-> BinaryOp(select_expr, "And", sub.val.expr),
                 joins |-> <<join>> \o sub.val.joins,
                 exists_index |-> sub.val.exists_index], sub.st)))

\* QueryBuilder::selection_expression
selection_expression(st, expression, exists_index, origin, table_alias, table) ==
    CASE expression.k = "And" ->
            Try(SelectionChildren(st, expression.expressions, 1, exists_index,
                                  origin, table_alias, table, <<>>),
                LAMBDA c :
                  With(FoldSelections(c.val.items, "And", TRUE),
                       LAMBDA f : Ok([expr |-> f.expr, joins |-> f.joins,
                                      exists_index |-> c.val.exists_index], c.st)))
      [] expression.k = "Or" ->
            Try(SelectionChildren(st, expression.expressions, 1, exists_index,
                                  origin, table_alias, table, <<>>),
                LAMBDA c :
                  With(FoldSelections(c.val.items, "Or", FALSE),
                       LAMBDA f : Ok([expr |-> f.expr, joins |-> f.joins,
                                      exists_index |-> c.val.exists_index], c.st)))
      [] expression.k = "Not" ->
            Try(selection_expression(st, expression.expression, exists_index,
                                     origin, table_alias, table),
                LAMBDA r :
                  Ok([expr |-> UnaryOp("Not", r.val.expr), joins |-> r.val.joins,
                      exists_index |-> r.val.exists_index], r.st))
      [] expression.k = "UnaryComparisonOperator" ->
            Try(comparison_column(st, table_alias, expression.column),
                LAMBDA c :
                  Ok([expr |-> IsNull(c.val), joins |-> <<>>,
                      exists_index |-> exists_index], st))
      [] expression.k = "BinaryComparisonOperator" ->
            Try(comparison_column(st, table_alias, expression.column),
                LAMBDA c :
                  IF expression.value.k = "AnotherColumnComparison"
                    THEN Err([kind |-> "RightHandColumnComparisonNotSupported",
                              column |-> expression.value.column.name], st)
                    ELSE With(bind_parameter(st,
                                 [k |-> "Value", value |-> expression.value.value,
                                  value_type |-> expression.value.value_type]),
                              LAMBDA b :
                                Ok([expr |-> BinaryOp(
                                               c.val,
                                               BinaryOperatorOf(expression.operator),
                                               b.val),
                                    joins |-> <<>>,
                                    exists_index |-> exists_index], b.st)))
      [] expression.k = "BinaryArrayComparisonOperator" ->
            Try(comparison_column(st, table_alias, expression.column),
                LAMBDA c :
                  With(BindList(st, expression.values, expression.value_type,
                                1, <<>>),
                       LAMBDA l :
                         Ok([expr |-> InList(c.val, l.val), joins |-> <<>>,
                             exists_index |-> exists_index], l.st)))
      [] expression.k = "Exists" ->
            IF origin
              THEN ExistsOrigin(st, expression.in_table, expression.selection,
                                exists_index, table_alias, table)
              ELSE ExistsNested(st, expression.in_table, expression.selection,
                                exists_index, table_alias, table)

-----------------------------------------------------------------------------
(* Order-by compilation *)

NumericTypes ==
    {"UInt8", "UInt16", "UInt32", "UInt64", "UInt128", "UInt256", "Int8",
     "Int16", "Int32", "Int64", "Int128", "Int256", "Float32", "Float64",
     "Decimal"}

\* every target ordered by the bare column
order_by_expr_bare_column(table_alias, column_alias, order_by_element) ==
    OrderByExpr(CompoundIdentifier(<<Quoted(table_alias), Quoted(column_alias)>>),
                Some(order_by_element.order_direction = "Asc"),
                Some(order_by_element.order_direction = "Desc"))

\* QueryBuilder::order_by_expr
order_by_expr(table_alias, column_alias, order_by_element) ==
    LET column == CompoundIdentifier(<<Quoted(table_alias), Quoted(column_alias)>>)
        target == order_by_element.target
        expr ==
          CASE target.k = "StarCountAggregate" ->
                 sql_function("COALESCE", <<column, ValueExpr(VNumber(U64(0)))>>)
            [] target.k = "SingleColumnAggregate" ->
                 LET default_sorting_value ==
                       IF target.result_type \in {"String", "FixedString"}
                         THEN VString("")
                       ELSE IF target.result_type \in NumericTypes
                         THEN VNumber(U64(0))
                       ELSE VNull
                 IN sql_function("COALESCE",
                                 <<column, ValueExpr(default_sorting_value)>>)
            [] target.k = "Column" -> column
    IN OrderByExpr(expr,
                   Some(order_by_element.order_direction = "Asc"),
                   Some(order_by_element.order_direction = "Desc"))

\* the alias under which an _ord.<path> sub-query projects an element's target
OrdColumnAlias(target) ==
    CASE target.k = "StarCountAggregate" -> "_count"
      [] target.k = "SingleColumnAggregate" ->
            "_agg." \o function_name(target.function) \o "." \o target.column
      [] target.k = "Column" -> "_col." \o target.column

OrdProjectionExpr(target) ==
    CASE target.k = "StarCountAggregate" ->
            FunctionExpr(<<Unquoted("COUNT")>>, <<Wildcard>>, None, FALSE)
      [] target.k = "SingleColumnAggregate" ->
            single_column_aggregate(target.function,
                                    Identifier(Quoted(target.column)))
      [] target.k = "Column" -> Identifier(Quoted(target.column))

\* for column in cols { if !v.contains(column) { v.push(column) } }
RECURSIVE PushNew(_, _, _)
PushNew(v, cols, i) ==
    IF i > Len(cols) THEN v
    ELSE PushNew(IF \E j \in 1..Len(v) : v[j] = cols[i] THEN v
                 ELSE Append(v, cols[i]),
                 cols, i + 1)

\* the projection / group-by maps filled from the elements whose target_path
\* is child_path (IndexMap::insert for each, in element order)
RECURSIVE OrdElementCols(_, _, _, _)
OrdElementCols(elements, child_path, i, acc) ==
    IF i > Len(elements) THEN acc
    ELSE LET element == elements[i] IN
         IF element.target_path # child_path
           THEN OrdElementCols(elements, child_path, i + 1, acc)
           ELSE LET col_alias == OrdColumnAlias(element.target)
                    projection_col ==
                        ExprWithAlias(OrdProjectionExpr(element.target),
                                      Quoted(col_alias))
                    p == IndexMapInsert(acc.projection_cols, col_alias,
                                        projection_col)
                    g == IF element.target.k = "Column"
                           THEN IndexMapInsert(acc.group_by_cols,
                                   element.target.column,
                                   Identifier(Quoted(element.target.column)))
                           ELSE acc.group_by_cols
                IN OrdElementCols(elements, child_path, i + 1,
                                  [projection_cols |-> p, group_by_cols |-> g])

\* columns appended to both maps whether they are there or not
RECURSIVE OrdJoinColsAppended(_, _, _)
OrdJoinColsAppended(columns, i, acc) ==
    IF i > Len(columns) THEN acc
    ELSE OrdJoinColsAppended(columns, i + 1,
            [projection_cols |->
                Append(acc.projection_cols,
                       Entry("_col." \o columns[i],
                             ExprWithAlias(Identifier(Quoted(columns[i])),
                                           Quoted("_col." \o columns[i])))),
             group_by_cols |->
                Append(acc.group_by_cols,
                       Entry(columns[i], Identifier(Quoted(columns[i]))))])

\* columns added to both maps when they are not there yet
RECURSIVE OrdJoinCols(_, _, _)
OrdJoinCols(columns, i, acc) ==
    IF i > Len(columns) THEN acc
    ELSE LET column == columns[i]
             col_alias == "_col." \o column
             p == IF IndexOfKey(acc.projection_cols, col_alias) # 0
                    THEN acc.projection_cols
                    ELSE IndexMapInsert(acc.projection_cols, col_alias,
                            ExprWithAlias(Identifier(Quoted(column)),
                                          Quoted(col_alias)))
             g == IF IndexOfKey(acc.group_by_cols, column) # 0
                    THEN acc.group_by_cols
                    ELSE IndexMapInsert(acc.group_by_cols, column,
                                        Identifier(Quoted(column)))
         IN OrdJoinCols(columns, i + 1,
                        [projection_cols |-> p, group_by_cols |-> g])

RECURSIVE order_by_joins(_, _, _, _, _)
RECURSIVE OrderByRelations(_, _, _, _, _, _, _, _)

\* the body of `for (relationship_name, order_by_relation) in relations`
OrderByRelations(st, table, source_path, relations, order_by, i, parent_join_columns, joins) ==
    IF i > Len(relations)
      THEN Ok([cols |-> parent_join_columns, joins |-> joins], st)
      ELSE
      LET relationship_name == relations[i].k
          order_by_relation == relations[i].v
          parent_alias == IF Len(source_path) = 0 THEN "_origin"
                          ELSE "_ord." \o JoinStrings(source_path, ".")
      IN Try(table_relationship(st, table, relationship_name),
         LAMBDA rel :
         LET relationship == rel.val
             cm == relationship.column_mapping
             pjc == PushNew(parent_join_columns, Keys(cm), 1)
             child_path == source_path \o <<relationship_name>>
             child_alias == "_ord." \o JoinStrings(child_path, ".")
         IN Try(order_by_joins(st, relationship.target_table, child_path,
                               order_by_relation.subrelations, order_by),
            LAMBDA child :
            Try(IF order_by_relation.selection.some
                  THEN selection_expression(child.st,
                          order_by_relation.selection.v, 0, TRUE,
                          "_origin", table)
                  ELSE Ok([expr |-> None, joins |-> <<>>], child.st),
            LAMBDA sel :
            With(OrdJoinCols(child.val.cols, 1,
                    OrdJoinCols(Values(cm), 1,
                       OrdElementCols(order_by.elements, child_path, 1,
                          [projection_cols |-> <<>>, group_by_cols |-> <<>>]))),
            LAMBDA c2 :
               LET join_selection ==
                       IF order_by_relation.selection.some
                         THEN Some(sel.val.expr) ELSE None
                   join_from ==
                       <<TableWithJoins(
                           TableFactorTable(
                              ObjectNameQuoted(relationship.target_table),
                              Some(Quoted("_origin"))),
                           sel.val.joins)>>
                   join_subquery ==
                       [QueryNew EXCEPT
                          !.projection = Values(c2.projection_cols),
                          !.from = join_from,
                          !.predicate = join_selection,
                          !.group_by = Values(c2.group_by_cols)]
                   on == [m \in 1..Len(cm) |->
                            BinaryOp(
                              CompoundIdentifier(
                                 <<Quoted(parent_alias),
                                   Quoted(IF Len(source_path) = 0 THEN cm[m].k
                                          ELSE "_col." \o cm[m].k)>>),
                              "Eq",
                              CompoundIdentifier(
                                 <<Quoted(child_alias),
                                   Quoted("_col." \o cm[m].v)>>))]
                   join == Join(TableFactorDerived(join_subquery,
                                                   Some(Quoted(child_alias))),
                                LeftOuterOn(UnwrapOr(ReduceAnd(on),
                                                     ValueExpr(VBoolean(TRUE)))))
               IN OrderByRelations(sel.st, table, source_path, relations,
                                   order_by, i + 1, pjc,
                                   (joins \o <<join>>) \o child.val.joins)))))

\* QueryBuilder::order_by_joins
order_by_joins(st, table, source_path, relations, order_by) ==
    OrderByRelations(st, table, source_path, relations, order_by, 1, <<>>, <<>>)

\* QueryBuilder::order_by_expressions_joins
order_by_expressions_joins(st, table, order_by) ==
    IF ~order_by.some THEN Ok([order_by |-> <<>>, joins |-> <<>>], st)
    ELSE LET ob == order_by.v
         IN Try(order_by_joins(st, table, <<>>, ob.relations, ob),
            LAMBDA j :
            LET exprs ==
                  [i \in 1..Len(ob.elements) |->
                     LET element == ob.elements[i]
                         table_alias ==
                             IF Len(element.target_path) = 0 THEN "_origin"
                             ELSE "_ord." \o JoinStrings(element.target_path, ".")
                         column_alias ==
                             CASE element.target.k = "StarCountAggregate" -> "_count"
                               [] element.target.k = "SingleColumnAggregate" ->
                                     "_agg." \o function_name(element.target.function)
                                             \o "." \o element.target.column
                               [] element.target.k = "Column" ->
                                     IF Len(element.target_path) = 0
                                       THEN element.target.column
                                       ELSE "_col." \o element.target.column
                     IN order_by_expr(table_alias, column_alias, element)]
            IN Ok([order_by |-> exprs, joins |-> j.val.joins], j.st))

\* QueryBuilder::row_number_expression
row_number_expression(partition_by, order_by) ==
    FunctionExpr(<<Unquoted("row_number")>>, <<>>,
                 Some([partition_by |->
                          [i \in 1..Len(partition_by) |->
                             CompoundIdentifier(<<Quoted("_origin"),
                                                  Quoted(partition_by[i])>>)],
                       order_by |-> order_by]),
                 FALSE)

-----------------------------------------------------------------------------
(* Pagination *)

RowRn == CompoundIdentifier(<<Quoted("_row"), Quoted("_rn")>>)

\* QueryBuilder::limit_offset_expression.  `limit.as_u64().unwrap() +
\* offset.as_u64().unwrap()` is a plain u64 addition: with overflow checks
\* (debug profile) an overflow panics, without them (release profile) the sum
\* wraps modulo 2^64.
limit_offset_expression(limit, offset) ==
    CASE ~limit.some /\ ~offset.some -> [panic |-> FALSE, val |-> None]
      [] ~limit.some /\ offset.some ->
            [panic |-> FALSE,
             val |-> Some(BinaryOp(RowRn, "Gt", ValueExpr(VNumber(offset.v))))]
      [] limit.some /\ ~offset.some ->
            [panic |-> FALSE,
             val |-> Some(BinaryOp(RowRn, "LtEq", ValueExpr(VNumber(limit.v))))]
      [] limit.some /\ offset.some ->
            With(U64Add(limit.v, offset.v),
                 LAMBDA sum :
                   IF sum.overflow /\ overflow_checks
                     THEN [panic |-> TRUE, val |-> None]
                     ELSE [panic |-> FALSE,
                           val |-> Some(BinaryOp(
                                     BinaryOp(RowRn, "Gt",
                                              ValueExpr(VNumber(offset.v))),
                                     "And",
                                     BinaryOp(RowRn, "LtEq",
                                              ValueExpr(VNumber(sum.value)))))])

-----------------------------------------------------------------------------
(* Recursive query walk *)

SelectionCol(col) == "_selection." \o col
ProjectionCol(alias) == "_projection." \o alias
ForeachCol(col) == "_foreach." \o col

\* a partition by the join columns alone
PartitionColsJoinOnly(join_cols, foreach_columns) == join_cols

\* join_cols ++ foreach_columns
PartitionCols(join_cols, foreach_columns) ==
    IF foreach_columns.some THEN join_cols \o foreach_columns.v ELSE join_cols

\* _origin.<col> AS "_selection.<col>" for every join column
SelectionColumnsExpressions(join_cols) ==
    [i \in 1..Len(join_cols) |->
       ExprWithAlias(CompoundIdentifier(<<Quoted("_origin"), Quoted(join_cols[i])>>),
                     Quoted(SelectionCol(join_cols[i])))]

\* _origin.<col> AS "_foreach.<col>" for every foreach column
ForeachColumnExpressions(foreach_columns) ==
    IF foreach_columns.some
      THEN [i \in 1..Len(foreach_columns.v) |->
              ExprWithAlias(
                 CompoundIdentifier(<<Quoted("_origin"), Quoted(foreach_columns.v[i])>>),
                 Quoted(ForeachCol(foreach_columns.v[i])))]
      ELSE <<>>

\* _row."_selection.<col>" AS "_selection.<col>", then the grouped column,
\* then (foreach) the unnamed _row."_foreach.<col>" columns
GroupedProjection(join_cols, grouped, foreach_columns) ==
    [i \in 1..Len(join_cols) |->
       ExprWithAlias(CompoundIdentifier(<<Quoted("_row"),
                                          Quoted(SelectionCol(join_cols[i]))>>),
                     Quoted(SelectionCol(join_cols[i])))]
    \o <<grouped>>
    \o (IF foreach_columns.some
          THEN [i \in 1..Len(foreach_columns.v) |->
                  UnnamedExpr(CompoundIdentifier(
                     <<Quoted("_row"), Quoted(ForeachCol(foreach_columns.v[i]))>>))]
          ELSE <<>>)

GroupedGroupBy(join_cols, foreach_columns) ==
    [i \in 1..Len(join_cols) |->
       CompoundIdentifier(<<Quoted("_row"), Quoted(SelectionCol(join_cols[i]))>>)]
    \o (IF foreach_columns.some
          THEN [i \in 1..Len(foreach_columns.v) |->
                  CompoundIdentifier(
                     <<Quoted("_row"), Quoted(ForeachCol(foreach_columns.v[i]))>>)]
          ELSE <<>>)

\* a selection whose error is dropped: the sub-query is left unfiltered
NodeSelectionLenient(st, query, table) ==
    IF query.selection.some
      THEN With(selection_expression(st, query.selection.v, 0, TRUE,
                                     "_origin", table),
                LAMBDA r :
                  IF r.ok
                    THEN Ok([expr |-> Some(r.val.expr), joins |-> r.val.joins],
                            r.st)
                    ELSE Ok([expr |-> None, joins |-> <<>>], r.st))
      ELSE Ok([expr |-> None, joins |-> <<>>], st)

\* the selection of a row / aggregate sub-query: origin mode, counter from 0
NodeSelection(st, query, table) ==
    IF query.selection.some
      THEN Try(selection_expression(st, query.selection.v, 0, TRUE,
                                    "_origin", table),
               LAMBDA r :
                 Ok([expr |-> Some(r.val.expr), joins |-> r.val.joins], r.st))
      ELSE Ok([expr |-> None, joins |-> <<>>], st)

RECURSIVE query_subquery(_, _, _, _, _)
RECURSIVE RelationshipJoins(_, _, _, _, _)
RECURSIVE RelationshipJoinsFirstOnly(_, _, _, _, _)

\* only the first relationship field of a node is joined
RelationshipJoinsFirstOnly(st, table, fields, i, acc) ==
    IF i > Len(fields) \/ Len(acc) > 0 THEN Ok(acc, st)
    ELSE IF fields[i].v.k = "Column"
      THEN RelationshipJoinsFirstOnly(st, table, fields, i + 1, acc)
    ELSE
      Try(table_relationship(st, table, fields[i].v.relationship),
         LAMBDA rel :
         Try(query_subquery(st, rel.val.target_table,
                            Values(rel.val.column_mapping), fields[i].v.query,
                            None),
            LAMBDA sub :
              RelationshipJoinsFirstOnly(sub.st, table, fields, i + 1,
                 Append(acc,
                        Join(TableFactorDerived(sub.val,
                                Some(Quoted("_rel." \o fields[i].k))),
                             LeftOuterOn(ValueExpr(VBoolean(TRUE))))))))

\* the relationship fields of a node, in field order, each compiled into a
\* LEFT OUTER JOIN of its sub-query; stops at the first error
RelationshipJoins(st, table, fields, i, acc) ==
    IF i > Len(fields) THEN Ok(acc, st)
    ELSE IF fields[i].v.k = "Column"
      THEN RelationshipJoins(st, table, fields, i + 1, acc)
    ELSE
      LET alias == fields[i].k
          field == fields[i].v
      IN Try(table_relationship(st, table, field.relationship),
         LAMBDA rel :
         LET cm == rel.val.column_mapping
             eqs == [m \in 1..Len(cm) |->
                       BinaryOp(
                          CompoundIdentifier(<<Quoted("_origin"), Quoted(cm[m].k)>>),
                          "Eq",
                          CompoundIdentifier(<<Quoted("_rel." \o alias),
                                               Quoted(SelectionCol(cm[m].v))>>))]
             join_expr == UnwrapOr(ReduceAnd(eqs), ValueExpr(VBoolean(TRUE)))
         IN Try(query_subquery(st, rel.val.target_table, Values(cm),
                               field.query, None),
            LAMBDA sub :
              RelationshipJoins(sub.st, table, fields, i + 1,
                 Append(acc,
                        Join(TableFactorDerived(sub.val,
                                                Some(Quoted("_rel." \o alias))),
                             LeftOuterOn(join_expr))))))

\* QueryBuilder::row_subquery
row_subquery(st, table, join_cols, fields, query, foreach_columns) ==
    LET row_columns_expressions ==
            [i \in 1..Len(fields) |->
               LET alias == fields[i].k
                   field == fields[i].v
               IN IF field.k = "Column"
                    THEN LET identifier ==
                                 CompoundIdentifier(<<Quoted("_origin"),
                                                      Quoted(field.column)>>)
                         IN ExprWithAlias(
                               IF field.column_type = "Complex"
                                 THEN sql_function("toJSONString", <<identifier>>)
                                 ELSE identifier,
                               Quoted(ProjectionCol(alias)))
                    ELSE ExprWithAlias(
                            CompoundIdentifier(<<Quoted("_rel." \o alias),
                                                 Quoted("query")>>),
                            Quoted(ProjectionCol(alias)))]
    IN Try(order_by_expressions_joins(st, table, query.order_by),
       LAMBDA ob :
       LET row_number ==
               ExprWithAlias(
                  row_number_expression(PartitionCols(join_cols, foreach_columns),
                                        ob.val.order_by),
                  Quoted("_rn"))
           row_projection ==
               SelectionColumnsExpressions(join_cols) \o row_columns_expressions
                  \o ForeachColumnExpressions(foreach_columns) \o <<row_number>>
       IN Try(NodeSelection(ob.st, query, table),
          LAMBDA sel :
          Try(RelationshipJoins(sel.st, table, fields, 1, <<>>),
             LAMBDA rj :
             LET row_from ==
                     <<TableWithJoins(
                         TableFactorTable(ObjectNameQuoted(table),
                                          Some(Quoted("_origin"))),
                         (rj.val \o ob.val.joins) \o sel.val.joins)>>
                 row_order_by ==
                     <<OrderByExpr(CompoundIdentifier(<<Quoted("_rn")>>), None, None)>>
             IN Ok([QueryNew EXCEPT !.projection = row_projection,
                                    !.from = row_from,
                                    !.predicate = sel.val.expr,
                                    !.order_by = row_order_by],
                   rj.st))))

\* QueryBuilder::rows_subquery
rows_subquery(st, table, join_cols, fields, query, foreach_columns) ==
    Try(row_subquery(st, table, join_cols, fields, query, foreach_columns),
       LAMBDA row :
       LET column_exprs ==
               [i \in 1..Len(fields) |->
                  CompoundIdentifier(<<Quoted("_row"),
                                       Quoted(ProjectionCol(fields[i].k))>>)]
           rows ==
               ExprWithAlias(
                  IF Len(column_exprs) = 0
                    THEN sql_function("groupArray", <<sql_function("map", <<>>)>>)
                    ELSE sql_function("groupArray",
                                      <<sql_function("tuple", column_exprs)>>),
                  Quoted("rows"))
           rows_from == <<TableWithJoins(
                            TableFactorDerived(row.val, Some(Quoted("_row"))),
                            <<>>)>>
       IN With(limit_offset_expression(query.limit, query.offset),
          LAMBDA rows_selection :
          IF rows_selection.panic
            THEN Panic("attempt to add with overflow", row.st)
            ELSE Ok([QueryNew EXCEPT
                       !.projection = GroupedProjection(join_cols, rows,
                                                        foreach_columns),
                       !.from = rows_from,
                       !.predicate = rows_selection.val,
                       !.group_by = GroupedGroupBy(join_cols, foreach_columns)],
                    row.st)))

\* QueryBuilder::aggregate_subquery
aggregate_subquery(st, table, join_cols, aggregates, query, foreach_columns) ==
    LET projected == SelectSeq(aggregates, LAMBDA a : a.v.k # "StarCount")
        aggregate_columns_expressions ==
            [i \in 1..Len(projected) |->
               ExprWithAlias(
                  CompoundIdentifier(<<Quoted("_origin"),
                                       Quoted(projected[i].v.column)>>),
                  Quoted(ProjectionCol(projected[i].k)))]
    IN Try(order_by_expressions_joins(st, table, query.order_by),
       LAMBDA ob :
       LET row_number ==
               ExprWithAlias(
                  row_number_expression(PartitionCols(join_cols, foreach_columns),
                                        ob.val.order_by),
                  Quoted("_rn"))
           aggregate_projection ==
               SelectionColumnsExpressions(join_cols)
                  \o aggregate_columns_expressions
                  \o ForeachColumnExpressions(foreach_columns) \o <<row_number>>
       IN Try(NodeSelection(ob.st, query, table),
          LAMBDA sel :
          LET aggregate_from ==
                  <<TableWithJoins(
                      TableFactorTable(ObjectNameQuoted(table),
                                       Some(Quoted("_origin"))),
                      sel.val.joins \o ob.val.joins)>>
          IN Ok([QueryNew EXCEPT !.projection = aggregate_projection,
                                 !.from = aggregate_from,
                                 !.predicate = sel.val.expr],
                sel.st)))

\* the accumulator of one aggregate over _row."_projection.<alias>"
AggregateColumnExpr(alias, aggregate) ==
    LET column == CompoundIdentifier(<<Quoted("_row"), Quoted(ProjectionCol(alias))>>)
    IN CASE aggregate.k = "StarCount" ->
              FunctionExpr(<<Unquoted("COUNT")>>, <<Wildcard>>, None, FALSE)
         [] aggregate.k = "ColumnCount" ->
              FunctionExpr(<<Unquoted("COUNT")>>, <<column>>, None,
                           aggregate.distinct)
         [] aggregate.k = "SingleColumn" ->
              single_column_aggregate(aggregate.function, column)

\* QueryBuilder::aggregates_subquery
aggregates_subquery(st, table, join_cols, aggregates, query, foreach_columns) ==
    Try(aggregate_subquery(st, table, join_cols, aggregates, query,
                           foreach_columns),
       LAMBDA agg :
       LET column_exprs ==
               [i \in 1..Len(aggregates) |->
                  AggregateColumnExpr(aggregates[i].k, aggregates[i].v)]
           aggs ==
               ExprWithAlias(
                  IF Len(column_exprs) = 0 THEN sql_function("map", <<>>)
                  ELSE sql_function("tuple", column_exprs),
                  Quoted("aggregates"))
           aggregates_from ==
               <<TableWithJoins(TableFactorDerived(agg.val, Some(Quoted("_row"))),
                                <<>>)>>
       IN With(limit_offset_expression(query.aggregates_limit, query.offset),
          LAMBDA aggregates_selection :
          IF aggregates_selection.panic
            THEN Panic("attempt to add with overflow", agg.st)
            ELSE Ok([QueryNew EXCEPT
                       !.projection = GroupedProjection(join_cols, aggs,
                                                        foreach_columns),
                       !.from = aggregates_from,
                       !.predicate = aggregates_selection.val,
                       !.group_by = GroupedGroupBy(join_cols, foreach_columns)],
                    agg.st)))

\* a foreach join that names every sub-query _rows
ForeachJoinAsRows(subquery, alias, foreach_columns) ==
    Join(TableFactorDerived(subquery, Some(Quoted("_rows"))),
         LeftOuterOn(ValueExpr(VBoolean(TRUE))))

\* a foreach join that correlates nothing: ON TRUE whatever the keys
ForeachJoinOnTrue(subquery, alias, foreach_columns) ==
    Join(TableFactorDerived(subquery, Some(Quoted(alias))),
         LeftOuterOn(ValueExpr(VBoolean(TRUE))))

\* LEFT OUTER JOIN <sub-query> AS <alias>
\*   ON _foreach.<k> = <alias>."_foreach.<k>" AND ... (TRUE without keys)
ForeachJoin(subquery, alias, foreach_columns) ==
    LET eqs == [i \in 1..Len(foreach_columns) |->
                  BinaryOp(
                     CompoundIdentifier(<<Quoted("_foreach"),
                                          Quoted(foreach_columns[i])>>),
                     "Eq",
                     CompoundIdentifier(<<Quoted(alias),
                                          Quoted(ForeachCol(foreach_columns[i]))>>))]
    IN Join(TableFactorDerived(subquery, Some(Quoted(alias))),
            LeftOuterOn(UnwrapOr(ReduceAnd(eqs), ValueExpr(VBoolean(TRUE)))))

\* a combinator that is CROSS JOIN whatever the join columns
AlwaysCrossJoin(join_cols) == CrossJoin

\* the operator joining _aggregates to _rows: CROSS JOIN without join
\* columns, else FULL OUTER JOIN USING ("_selection.<col>", ...)
RowsAggregatesJoinOperator(join_cols) ==
    IF Len(join_cols) = 0 THEN CrossJoin
    ELSE FullOuterUsing([i \in 1..Len(join_cols) |->
                           Quoted(SelectionCol(join_cols[i]))])

\* the FROM of a query sub-query.  foreach: Option<[table, columns]>;
\* rows, aggs: Option<Query>
QueryFrom(join_cols, rows, aggs, foreach) ==
    IF foreach.some
      THEN <<TableWithJoins(
                foreach.v.table,
                (IF rows.some
                   THEN <<ForeachJoin(rows.v, "_rows", foreach.v.columns)>>
                   ELSE <<>>)
                \o (IF aggs.some
                      THEN <<ForeachJoin(aggs.v, "_aggregates", foreach.v.columns)>>
                      ELSE <<>>))>>
      ELSE CASE ~rows.some /\ ~aggs.some -> <<>>
             [] ~rows.some /\ aggs.some ->
                  <<TableWithJoins(
                      TableFactorDerived(aggs.v, Some(Quoted("_aggregates"))),
                      <<>>)>>
             [] rows.some /\ ~aggs.some ->
                  <<TableWithJoins(
                      TableFactorDerived(rows.v, Some(Quoted("_rows"))), <<>>)>>
             [] rows.some /\ aggs.some ->
                  <<TableWithJoins(
                      TableFactorDerived(rows.v, Some(Quoted("_rows"))),
                      <<Join(TableFactorDerived(aggs.v, Some(Quoted("_aggregates"))),
                             RowsAggregatesJoinOperator(join_cols))>>)>>

\* a value expression that lists the aggregates before the rows
QueryExprAggregatesFirst(has_rows, has_aggs) ==
    LET rows_expr == CompoundIdentifier(<<Quoted("_rows"), Quoted("rows")>>)
        aggregates_expr ==
            CompoundIdentifier(<<Quoted("_aggregates"), Quoted("aggregates")>>)
    IN CASE ~has_rows /\ ~has_aggs -> sql_function("map", <<>>)
         [] ~has_rows /\ has_aggs -> sql_function("tuple", <<aggregates_expr>>)
         [] has_rows /\ ~has_aggs -> sql_function("tuple", <<rows_expr>>)
         [] has_rows /\ has_aggs ->
               sql_function("tuple", <<aggregates_expr, rows_expr>>)

\* the value expression of a query node, by presence of rows / aggregates
QueryExpr(has_rows, has_aggs) ==
    LET rows_expr == CompoundIdentifier(<<Quoted("_rows"), Quoted("rows")>>)
        aggregates_expr ==
            CompoundIdentifier(<<Quoted("_aggregates"), Quoted("aggregates")>>)
    IN CASE ~has_rows /\ ~has_aggs -> sql_function("map", <<>>)
         [] ~has_rows /\ has_aggs -> sql_function("tuple", <<aggregates_expr>>)
         [] has_rows /\ ~has_aggs -> sql_function("tuple", <<rows_expr>>)
         [] has_rows /\ has_aggs ->
               sql_function("tuple", <<rows_expr, aggregates_expr>>)

\* QueryBuilder::query_subquery
query_subquery(st, table, join_cols, query, foreach) ==
    LET foreach_columns == IF foreach.some THEN Some(foreach.v.columns) ELSE None
    IN Try(IF query.fields.some
             THEN rows_subquery(st, table, join_cols, query.fields.v, query,
                                foreach_columns)
             ELSE Ok(None, st),
       LAMBDA rows :
       Try(IF query.aggregates.some
             THEN aggregates_subquery(rows.st, table, join_cols,
                                      query.aggregates.v, query, foreach_columns)
             ELSE Ok(None, rows.st),
          LAMBDA aggs :
          LET query_expr == QueryExpr(query.fields.some, query.aggregates.some)
              base_expr ==
                  IF foreach.some
                    THEN sql_function("tuple",
                           <<sql_function("groupArray",
                               <<sql_function("tuple", <<query_expr>>)>>)>>)
                    ELSE query_expr
              query_projection ==
                  <<ExprWithAlias(base_expr, Quoted("query"))>>
                  \o [i \in 1..Len(join_cols) |->
                        ExprWithAlias(
                           CompoundIdentifier(<<Quoted(SelectionCol(join_cols[i]))>>),
                           Quoted(SelectionCol(join_cols[i])))]
              query_from ==
                  QueryFrom(join_cols,
                            IF query.fields.some THEN Some(rows.val) ELSE None,
                            IF query.aggregates.some THEN Some(aggs.val) ELSE None,
                            foreach)
          IN Ok([QueryNew EXCEPT !.projection = query_projection,
                                 !.from = query_from],
                aggs.st)))

-----------------------------------------------------------------------------
(* Root envelope and foreach binding *)

\* serde_json's text of a scalar JSON value (numbers of the bindings are
\* below 2^16: their decimal text is that of the lowest limb)
JsonText(value) ==
    CASE value.j = "Number" -> ToString(value.n[4])
      [] value.j = "String" -> "\"" \o value.s \o "\""
      [] value.j = "Bool" -> IF value.b THEN "true" ELSE "false"
      [] value.j = "Null" -> "null"
      [] value.j = "Array" -> value.text
      [] value.j = "Object" -> value.text

\* one binding row folded into the column-oriented accumulator
RECURSIVE ForeachFoldRow(_, _, _)
ForeachFoldRow(accumulator, foreach_row, i) ==
    IF i > Len(foreach_row) THEN accumulator
    ELSE LET key == foreach_row[i].k
             value == foreach_row[i].v.value
             at == IndexOfKey(accumulator, key)
         IN ForeachFoldRow(
               IF at # 0
                 THEN [accumulator EXCEPT ![at].v = Append(@, value)]
                 ELSE IndexMapInsert(accumulator, key, <<value>>),
               foreach_row, i + 1)

RECURSIVE ForeachFold(_, _, _)
ForeachFold(accumulator, foreach, i) ==
    IF i > Len(foreach) THEN accumulator
    ELSE ForeachFold(ForeachFoldRow(accumulator, foreach[i], 1), foreach, i + 1)

\* an object built from the first binding row alone
foreach_obj_first_row(foreach) == ForeachFold(<<>>, <<foreach[1]>>, 1)

\* foreach_obj: IndexMap<String, Vec<Value>>
foreach_obj(foreach) == ForeachFold(<<>>, foreach, 1)

\* serde_json::to_string(&foreach_obj)
foreach_obj_json_string(obj) ==
    "{" \o JoinStrings(
             [i \in 1..Len(obj) |->
                "\"" \o obj[i].k \o "\":["
                   \o JoinStrings([j \in 1..Len(obj[i].v) |-> JsonText(obj[i].v[j])],
                                  ",")
                   \o "]"],
             ",")
        \o "}"

\* QueryBuilder::root_query
root_query(st) ==
    LET table == st.request.table
        query == st.request.query
        foreach == st.request.foreach
    IN IF foreach.some /\ Len(foreach.v) = 0
         THEN Panic("index out of bounds", st)       \* foreach[0]
         ELSE
         LET foreach_arg ==
                 IF foreach.some
                   THEN LET foreach_expr ==
                              FunctionExpr(
                                 <<Unquoted("format")>>,
                                 <<Identifier(Unquoted("JSONColumns")),
                                   ValueExpr(VString(foreach_obj_json_string(
                                                        foreach_obj(foreach.v))))>>,
                                 None, FALSE)
                        IN Some([table |-> TableFactorFunction(foreach_expr,
                                                Some(Quoted("_foreach"))),
                                 columns |-> Keys(foreach.v[1])])
                   ELSE None
             root_object_cast_type ==
                 IF foreach.some THEN foreach_object_type(query)
                                 ELSE query_object_type(query)
         IN Try(query_subquery(st, table, <<>>, query, foreach_arg),
            LAMBDA sub :
            LET query_expr ==
                    CompoundIdentifier(<<Quoted("_query"), Quoted("query")>>)
                root_projection ==
                    <<ExprWithAlias(
                        sql_function("toJSONString",
                           <<sql_function("cast",
                               <<query_expr,
                                 ValueExpr(VString(root_object_cast_type))>>)>>),
                        Quoted("query"))>>
                root_from ==
                    <<TableWithJoins(
                        TableFactorDerived(sub.val, Some(Quoted("_query"))),
                        <<>>)>>
            IN Ok([QueryNew EXCEPT !.projection = root_projection,
                                   !.from = root_from],
                  sub.st))

\* QueryBuilder::build_sql_statement: the outcome the caller sees and the
\* builder as it is when root_query returns (it is dropped afterwards)
build_sql_statement(request, bind_params) ==
    With(root_query(QueryBuilderNew(request, bind_params)),
         LAMBDA r :
           [outcome |-> IF r.ok THEN [kind |-> "Ok", statement |-> r.val]
                        ELSE IF r.panic THEN [kind |-> "Panic", msg |-> r.err.msg]
                        ELSE [kind |-> "Err", err |-> r.err],
            builder |-> r.st])

-----------------------------------------------------------------------------
(* The requests the model compiles *)

MaxInList == 2        \* longest IN list
MaxForeachRows == 2   \* most binding rows of a foreach
MaxBinds == 4         \* most bind calls of one builder in BinderSpec

Users == <<"db", "users">>
Orders == <<"db", "orders">>
Items == <<"db", "items">>
Flags == <<"db", "flags">>

Relationship(target, mapping) ==
    [target_table |-> target, column_mapping |-> mapping]

TableRelationships ==
    <<[source_table |-> Users,
       relationships |->
          <<Entry("orders", Relationship(Orders, <<Entry("id", "user_id")>>)),
            Entry("posts", Relationship(Items, <<Entry("id", "author_id"),
                                                 Entry("org", "org_id")>>))>>],
      [source_table |-> Orders,
       relationships |->
          <<Entry("items", Relationship(Items, <<Entry("oid", "order_id")>>)),
            Entry("buyer", Relationship(Users, <<>>))>>]>>

JNumber(n) == [j |-> "Number", n |-> U64(n)]
JString(str) == [j |-> "String", s |-> str]

Column(name) == [name |-> name, path |-> None]
ColumnVia(name, path) == [name |-> name, path |-> Some(path)]

Scalar(value) ==
    [k |-> "ScalarValueComparison", value |-> value, value_type |-> "Int64"]
Binary(column, operator, value) ==
    [k |-> "BinaryComparisonOperator", column |-> column, operator |-> operator,
     value |-> value]
Compare(name, operator, n) == Binary(Column(name), operator, Scalar(JNumber(n)))
In(name, values) ==
    [k |-> "BinaryArrayComparisonOperator", column |-> Column(name),
     operator |-> "In", value_type |-> "Int64", values |-> values]
Unary(name) ==
    [k |-> "UnaryComparisonOperator", column |-> Column(name), operator |-> "IsNull"]
And(expressions) == [k |-> "And", expressions |-> expressions]
Or(expressions) == [k |-> "Or", expressions |-> expressions]
Not(expression) == [k |-> "Not", expression |-> expression]
ExistsRelated(relationship, selection) ==
    [k |-> "Exists",
     in_table |-> [k |-> "RelatedTable", relationship |-> relationship],
     selection |-> selection]
ExistsUnrelated(table, selection) ==
    [k |-> "Exists", in_table |-> [k |-> "UnrelatedTable", table |-> table],
     selection |-> selection]

InValues(n) == [i \in 1..n |-> JNumber(40 + i)]

\* selections over db.users
UserSelections ==
    {Compare("age", "GreaterThan", 18)}
    \cup {In("id", InValues(n)) : n \in 0..MaxInList}
    \cup {And(<<Compare("age", "GreaterThanOrEqual", 21),
                ExistsRelated("orders", Compare("total", "LessThan", 100))>>),
          And(<<ExistsUnrelated(Flags, In("code", InValues(MaxInList))),
                Not(Unary("name"))>>),
          Or(<<ExistsRelated("orders",
                   ExistsRelated("items", Compare("qty", "Equal", 2))),
               ExistsRelated("posts", Compare("score", "LessThanOrEqual", 5))>>),
          And(<<>>),
          Or(<<>>),
          Not(Or(<<Compare("age", "Equal", 1),
                   Binary(Column("name"), "Equal", Scalar(JString("bob")))>>)),
          Binary(ColumnVia("age", <<>>), "Equal", Scalar(JNumber(5))),
          ExistsRelated("orders",
             And(<<ExistsRelated("items", Compare("qty", "Equal", 3))>>)),
          Or(<<Compare("age", "Equal", 1), Unary("name"),
               And(<<Compare("age", "Equal", 2), Compare("age", "Equal", 3),
                     ExistsUnrelated(Flags, Unary("code"))>>)>>)}

\* selections no compile accepts
RejectedSelections ==
    {Binary(Column("age"), "Equal",
            [k |-> "AnotherColumnComparison", column |-> Column("height")]),
     And(<<Compare("age", "Equal", 3),
           Unary("name"),
           Binary(ColumnVia("total", <<"orders">>), "Equal", Scalar(JNumber(4)))>>),
     ExistsRelated("unknown", Compare("a", "Equal", 1)),
     ExistsRelated("items", Compare("qty", "Equal", 1)),
     ExistsUnrelated(Flags, ExistsRelated("orders", Compare("a", "Equal", 1))),
     Binary(ColumnVia("total", <<"orders">>), "Equal",
            [k |-> "AnotherColumnComparison", column |-> Column("height")]),
     Or(<<Compare("age", "Equal", 6),
          Not(ExistsRelated("orders",
                 [Unary("paid") EXCEPT !.column = ColumnVia("paid", <<"items">>)]))>>),
     ExistsUnrelated(Flags,
        And(<<[In("code", InValues(1)) EXCEPT
                  !.column = ColumnVia("code", <<"a", "b">>)]>>)),
     ExistsRelated("orders",
        ExistsRelated("items",
           Binary(Column("qty"), "Equal",
                  [k |-> "AnotherColumnComparison", column |-> Column("price")])))}

Element(path, target, direction) ==
    [target_path |-> path, target |-> target, order_direction |-> direction]
OrderByRelation(subrelations, selection) ==
    [subrelations |-> subrelations, selection |-> selection]
OrderBy(elements, relations) == [elements |-> elements, relations |-> relations]

\* order_by over db.users
UserOrderBys ==
    {OrderBy(<<Element(<<>>, [k |-> "Column", column |-> "name"], "Asc")>>, <<>>),
     OrderBy(<<Element(<<"orders">>, [k |-> "StarCountAggregate"], "Desc")>>,
             <<Entry("orders",
                     OrderByRelation(<<>>, Some(Compare("total", "GreaterThan", 7))))>>),
     OrderBy(<<Element(<<"orders", "items">>,
                       [k |-> "SingleColumnAggregate", column |-> "qty",
                        function |-> "Sum", result_type |-> "Int32"], "Asc"),
               Element(<<"orders">>, [k |-> "Column", column |-> "total"], "Desc")>>,
             <<Entry("orders",
                     OrderByRelation(
                        <<Entry("items",
                                OrderByRelation(<<>>,
                                   Some(In("qty", InValues(MaxInList)))))>>,
                        None))>>)}

Query(fields, aggregates, selection, order_by, limit, offset, aggregates_limit) ==
    [fields |-> fields, aggregates |-> aggregates, selection |-> selection,
     order_by |-> order_by, limit |-> limit, offset |-> offset,
     aggregates_limit |-> aggregates_limit]

ColumnField(column, column_type) ==
    [k |-> "Column", column |-> column, column_type |-> column_type]
RelationshipField(relationship, query) ==
    [k |-> "Relationship", relationship |-> relationship, query |-> query]

StarCount == [k |-> "StarCount"]
ColumnCount(column, distinct) ==
    [k |-> "ColumnCount", column |-> column, distinct |-> distinct]
SingleColumn(column, function, result_type) ==
    [k |-> "SingleColumn", column |-> column, function |-> function,
     result_type |-> result_type]

\* sub-queries of the relationship users.orders (over db.orders)
OrderQueries ==
    {Query(None, None, None, None, None, None, None),
     Query(Some(<<Entry("total", ColumnField("total", "Float64"))>>), None,
           Some(Compare("total", "GreaterThan", 9)), None,
           Some(U64(3)), None, None),
     Query(Some(<<Entry("lines",
                        RelationshipField("items",
                           Query(Some(<<Entry("qty", ColumnField("qty", "Int32"))>>),
                                 Some(<<Entry("n", StarCount)>>),
                                 Some(In("qty", InValues(MaxInList))),
                                 None, None, None, None)))>>),
           Some(<<Entry("spent", SingleColumn("total", "Sum", "Decimal"))>>),
           None, None, None, Some(U64(1)), Some(U64(2))),
     Query(Some(<<Entry("buyer",
                        RelationshipField("buyer",
                           Query(Some(<<Entry("name", ColumnField("name", "String"))>>),
                                 Some(<<Entry("n", StarCount)>>),
                                 None, None, None, None, None)))>>),
           None, None, None, None, None, None)}

FieldsChoices ==
    {None,
     Some(<<>>),
     Some(<<Entry("id", ColumnField("id", "Int64"))>>),
     Some(<<Entry("id", ColumnField("id", "Int64")),
            Entry("meta", ColumnField("meta", "Complex"))>>)}
    \cup {Some(<<Entry("id", ColumnField("id", "UInt64")),
                 Entry("orders", RelationshipField("orders", q))>>) :
            q \in OrderQueries}

AggregatesChoices ==
    {None,
     Some(<<>>),
     Some(<<Entry("n", StarCount)>>),
     Some(<<Entry("ids", ColumnCount("id", TRUE)),
            Entry("oldest", SingleColumn("age", "Max", "UInt8")),
            Entry("longest", SingleColumn("name", "Longest", "String"))>>)}

\* (limit, offset, aggregates_limit)
PageChoices ==
    {<<None, None, None>>,
     <<Some(U64(10)), None, None>>,
     <<None, Some(U64(20)), Some(U64(5))>>,
     <<Some(U64(10)), Some(U64(20)), Some(U64(5))>>,
     <<Some(U64Max), Some(U64(1)), None>>,
     <<None, Some(U64(2)), Some(U64Max)>>}

ForeachRow(n) ==
    <<Entry("user_id", [value |-> JNumber(n), value_type |-> "Int64"])>>
ForeachRow2(n) ==
    <<Entry("user_id", [value |-> JNumber(n), value_type |-> "Int64"]),
      Entry("org", [value |-> JString("acme"), value_type |-> "String"])>>

\* no foreach; rows of one key; rows of two keys; one row without a key;
\* rows whose key sets differ (the later row has more keys, or fewer)
ForeachChoices ==
    {None}
    \cup {Some([i \in 1..n |-> ForeachRow(i)]) : n \in 1..MaxForeachRows}
    \cup {Some([i \in 1..MaxForeachRows |-> ForeachRow2(i)])}
    \cup {Some(<<<<>>>>),
          Some(<<ForeachRow(1), ForeachRow2(2)>>),
          Some(<<ForeachRow2(1), ForeachRow(2)>>)}

Request(query, foreach) ==
    [table |-> Users, table_relationships |-> TableRelationships,
     query |-> query, foreach |-> foreach]

\* every shape of node, plain or paginated, with and without foreach
ShapeRequests ==
    {Request(Query(f, a, s, None, p[1], p[2], p[3]), fe) :
        f \in FieldsChoices, a \in AggregatesChoices,
        s \in {None, Some(Compare("age", "GreaterThan", 18))},
        p \in PageChoices, fe \in ForeachChoices}

\* every selection and order_by, on nodes with rows, aggregates or both
PredicateRequests ==
    {Request(Query(f, a, s, o, None, None, None), fe) :
        f \in {None, Some(<<Entry("id", ColumnField("id", "Int64"))>>),
               Some(<<Entry("orders",
                            RelationshipField("orders",
                               Query(Some(<<Entry("total",
                                                  ColumnField("total", "Float64"))>>),
                                     None,
                                     Some(Compare("total", "GreaterThan", 9)),
                                     None, None, None, None)))>>)},
        a \in {None, Some(<<Entry("n", StarCount)>>)},
        s \in {None} \cup {Some(x) : x \in UserSelections \cup RejectedSelections},
        o \in {None} \cup {Some(x) : x \in UserOrderBys},
        fe \in {None, Some(<<ForeachRow(1)>>)}}

\* fields whose relationship lookups fail: a relationship declared on
\* db.orders only, and a relationship of db.items, which declares none
RejectedFields ==
    {Some(<<Entry("id", ColumnField("id", "Int64")),
            Entry("parts",
                  RelationshipField("items",
                     Query(None, None, None, None, None, None, None)))>>),
     Some(<<Entry("posts",
                  RelationshipField("posts",
                     Query(Some(<<Entry("maker",
                                        RelationshipField("maker",
                                           Query(None, None, None, None, None,
                                                 None, None)))>>),
                           None, None, None, None, None, None)))>>)}

\* order_by whose relation lookups fail, in the same two ways
RejectedOrderBys ==
    {OrderBy(<<Element(<<"items">>, [k |-> "StarCountAggregate"], "Asc")>>,
             <<Entry("items", OrderByRelation(<<>>, None))>>),
     OrderBy(<<Element(<<>>, [k |-> "Column", column |-> "name"], "Desc")>>,
             <<Entry("posts",
                     OrderByRelation(
                        <<Entry("maker", OrderByRelation(<<>>, None))>>,
                        Some(ExistsRelated("unknown",
                                           Compare("a", "Equal", 1)))))>>)}

\* requests with errors in several places at once
RejectedRequests ==
    {Request(Query(f, a, s, o, None, None, None), None) :
        f \in {None, Some(<<Entry("id", ColumnField("id", "Int64"))>>)}
                 \cup RejectedFields,
        a \in {None, Some(<<Entry("n", StarCount)>>)},
        s \in {None, Some(Compare("age", "GreaterThan", 18))}
                 \cup {Some(x) : x \in RejectedSelections},
        o \in {None} \cup {Some(x) : x \in RejectedOrderBys}}

\* order_by whose relations carry an Exists in their selection (over an
\* unrelated table, over a relationship of the parent table, over a
\* relationship of the relation's target table), order_by
\* whose elements name a path the relations tree does not have, and an
\* order_by over two relations of the root, the first with a sub-relation
RelationOrderBys ==
    {OrderBy(<<Element(<<"orders">>, [k |-> "Column", column |-> "total"], "Asc")>>,
             <<Entry("orders",
                     OrderByRelation(<<>>,
                        Some(ExistsUnrelated(Flags, Unary("code")))))>>),
     OrderBy(<<Element(<<"orders">>, [k |-> "StarCountAggregate"], "Asc")>>,
             <<Entry("orders",
                     OrderByRelation(<<>>,
                        Some(And(<<Compare("total", "GreaterThan", 7),
                                   ExistsRelated("orders",
                                      Compare("total", "Equal", 3))>>))))>>),
     OrderBy(<<Element(<<"orders">>, [k |-> "StarCountAggregate"], "Desc")>>, <<>>),
     OrderBy(<<Element(<<"orders">>, [k |-> "StarCountAggregate"], "Asc")>>,
             <<Entry("orders",
                     OrderByRelation(<<>>,
                        Some(ExistsRelated("items",
                                           Compare("qty", "Equal", 1)))))>>),
     OrderBy(<<Element(<<"orders">>, [k |-> "Column", column |-> "user_id"], "Asc"),
               Element(<<"posts">>, [k |-> "StarCountAggregate"], "Desc"),
               Element(<<"orders", "items">>,
                       [k |-> "SingleColumnAggregate", column |-> "qty",
                        function |-> "Sum", result_type |-> "Int32"], "Asc")>>,
             <<Entry("orders",
                     OrderByRelation(
                        <<Entry("items", OrderByRelation(<<>>, None))>>, None)),
               Entry("posts", OrderByRelation(<<>>, None))>>),
     OrderBy(<<Element(<<"orders">>, [k |-> "Column", column |-> "total"], "Asc"),
               Element(<<"orders", "items">>, [k |-> "Column", column |-> "qty"],
                       "Desc")>>,
             <<Entry("orders", OrderByRelation(<<>>, None))>>)}

OrderByRequests ==
    {Request(Query(f, a, None, Some(o), None, None, None), None) :
        f \in {None, Some(<<Entry("id", ColumnField("id", "Int64"))>>)},
        a \in {None, Some(<<Entry("n", StarCount)>>)},
        o \in RelationOrderBys}

\* two relationship fields around a column field, the first with a
\* relationship field of its own
RelationshipRequests ==
    {Request(Query(Some(<<Entry("orders", RelationshipField("orders", q)),
                          Entry("id", ColumnField("id", "Int64")),
                          Entry("written",
                                RelationshipField("posts",
                                   Query(Some(<<Entry("qty",
                                                      ColumnField("qty", "Int32"))>>),
                                         None,
                                         Some(Compare("qty", "GreaterThan", 1)),
                                         None, None, None, None)))>>),
                   a, None, None, None, None, None), None) :
        q \in OrderQueries, a \in {None, Some(<<Entry("n", StarCount)>>)}}

\* an Exists with three Exists below it, the first with one of its own
ExistsRequests ==
    {Request(Query(Some(<<Entry("id", ColumnField("id", "Int64"))>>), a,
                   Some(ExistsRelated("orders",
                           And(<<ExistsRelated("items",
                                    ExistsUnrelated(Flags, Unary("code"))),
                                 ExistsRelated("buyer", Unary("name")),
                                 ExistsUnrelated(Flags, Unary("code"))>>))),
                   o, None, None, None), None) :
        a \in {None, Some(<<Entry("n", StarCount)>>)},
        o \in {None} \cup {Some(x) : x \in RelationOrderBys}}

\* one column field and one aggregate of every scalar type
TypeRequests ==
    {Request(Query(Some(<<Entry("c", ColumnField("c", t))>>),
                   Some(<<Entry("a", SingleColumn("c", "Min", t))>>),
                   None, None, None, None, None), None) : t \in ScalarTypes}
    \cup {Request(Query(Some(<<Entry("c", ColumnField("c", t))>>),
                        None, None, None, None, None, None), None) :
             t \in ScalarTypes}

Requests ==
    ShapeRequests \cup PredicateRequests \cup RejectedRequests
        \cup OrderByRequests \cup RelationshipRequests \cup ExistsRequests
        \cup TypeRequests

-----------------------------------------------------------------------------
(* The compile as a state machine *)

NoStatement == [kind |-> "None"]
NoBuilder == QueryBuilderNew(Request(Query(None, None, None, None, None, None, None),
                                     None), FALSE)

Init ==
    /\ pc = "idle"
    /\ builder = NoBuilder
    /\ bound = <<>>
    /\ emitted = <<>>
    /\ statement = NoStatement
    /\ overflow_checks \in BOOLEAN
    /\ route = None
    /\ executed = None

\* QueryBuilder::build_sql_statement(request, bind_params), start to end
Build(req, bind_params) ==
    /\ pc = "idle"
    /\ \E r \in {build_sql_statement(req, bind_params)} :
          /\ statement' = r.outcome
          /\ builder' = r.builder
    /\ pc' = "done"
    /\ UNCHANGED <<bound, emitted, overflow_checks, route, executed>>

\* the caller takes the outcome; the builder is dropped
Drop ==
    /\ pc = "done"
    /\ pc' = "idle"
    /\ builder' = NoBuilder
    /\ statement' = NoStatement
    /\ UNCHANGED <<bound, emitted, overflow_checks, route, executed>>

Next ==
    \/ \E req \in Requests, bind_params \in BOOLEAN : Build(req, bind_params)
    \/ Drop

Spec == Init /\ [][Next]_vars

-----------------------------------------------------------------------------
(* The parameter binder as a state machine: any sequence of bind calls *)

BoundParams ==
    {[k |-> "Number", number |-> U64(7)],
     [k |-> "Value", value |-> JNumber(1), value_type |-> "Int64"],
     [k |-> "Value", value |-> JString("a"), value_type |-> "String"],
     [k |-> "Value", value |-> [j |-> "Bool", b |-> TRUE], value_type |-> "Bool"],
     [k |-> "Value", value |-> [j |-> "Null"], value_type |-> "String"],
     [k |-> "Value", value |-> [j |-> "Array", text |-> "[1,2]"],
      value_type |-> "Complex"],
     [k |-> "Value", value |-> [j |-> "Object", text |-> "{\"a\":1}"],
      value_type |-> "Json"]}

BinderInit ==
    /\ pc = "binding"
    /\ \E bind_params \in BOOLEAN : builder = QueryBuilderNew(NoBuilder.request,
                                                             bind_params)
    /\ bound = <<>>
    /\ emitted = <<>>
    /\ statement = NoStatement
    /\ overflow_checks \in BOOLEAN
    /\ route = None
    /\ executed = None

\* QueryBuilder::new: the next compile gets a fresh builder
BinderNew(bind_params) ==
    /\ pc = "binding"
    /\ bound # <<>>
    /\ builder' = QueryBuilderNew(NoBuilder.request, bind_params)
    /\ bound' = <<>>
    /\ emitted' = <<>>
    /\ UNCHANGED <<pc, statement, overflow_checks, route, executed>>

\* QueryBuilder::bind_parameter(param)
BinderBind(param) ==
    /\ pc = "binding"
    /\ Len(bound) < MaxBinds
    /\ \E r \in {bind_parameter(builder, param)} :
          /\ builder' = r.st
          /\ emitted' = Append(emitted, r.val)
    /\ bound' = Append(bound, param)
    /\ UNCHANGED <<pc, statement, overflow_checks, route, executed>>

BinderNext ==
    \/ \E bind_params \in BOOLEAN : BinderNew(bind_params)
    \/ \E param \in BoundParams : BinderBind(param)

BinderSpec == BinderInit /\ [][BinderNext]_vars

-----------------------------------------------------------------------------
(* The raw route: src/src/server/routes/post_raw.rs *)

MaxRawPieces == 3     \* most pieces a raw query is put together from

\* str::contains
Contains(s, pattern) ==
    \E i \in 1..(Len(s) - Len(pattern) + 1) :
       SubSeq(s, i, i + Len(pattern) - 1) = pattern

\* str::replace of a one-character pattern: every occurrence is replaced
RECURSIVE Replace(_, _, _, _)
Replace(s, from, to, i) ==
    IF i > Len(s) THEN ""
    ELSE (IF SubSeq(s, i, i) = from THEN to ELSE SubSeq(s, i, i))
            \o Replace(s, from, to, i + 1)

\* the query post_raw executes for the query of the request
RawQuery(query) ==
    IF Contains(query, "FORMAT JSON;") THEN query
    ELSE IF Contains(query, ";") THEN Replace(query, ";", " FORMAT JSON;", 1)
    ELSE query \o " FORMAT JSON;"

RawPieces == {"SELECT 1", ";", " ", " FORMAT JSON;", " FORMAT JSON"}

RECURSIVE Concat(_, _)
Concat(pieces, i) ==
    IF i > Len(pieces) THEN "" ELSE pieces[i] \o Concat(pieces, i + 1)

\* RawRequest.query: a statement, with ';' and FORMAT JSON anywhere in it
RawQueries ==
    {Concat(pieces, 1) :
        pieces \in UNION {[1..n -> RawPieces] : n \in 1..MaxRawPieces}}

\* post_raw up to the call of execute_query
PostRaw(query) ==
    /\ pc = "idle"
    /\ route' = Some([path |-> "raw", query |-> query])
    /\ executed' = Some(RawQuery(query))
    /\ pc' = "executing"
    /\ UNCHANGED <<builder, bound, emitted, statement, overflow_checks>>

\* execute_query returns and the handler responds
Respond ==
    /\ pc = "executing"
    /\ pc' = "idle"
    /\ route' = None
    /\ executed' = None
    /\ UNCHANGED <<builder, bound, emitted, statement, overflow_checks>>

RawNext ==
    \/ \E query \in RawQueries : PostRaw(query)
    \/ Respond

RawSpec == Init /\ [][RawNext]_vars

-----------------------------------------------------------------------------
(* The explain route: src/src/server/routes/post_explain.rs *)

\* statement.to_string(): the text of the statement, one token per AST
StatementString(ast) == <<ast>>

\* format!("EXPLAIN {}", statement_string)
ExplainStatement(statement_string) == <<"EXPLAIN ">> \o statement_string

\* the requests sent to the explain route, aliases already applied
ExplainRequests ==
    PredicateRequests \cup RejectedRequests \cup OrderByRequests
        \cup RelationshipRequests \cup ExistsRequests \cup TypeRequests

\* post_explain up to the call of execute_query; an error of the compile
\* is returned by `?` before anything is executed
PostExplain(request) ==
    /\ pc = "idle"
    /\ \E r \in {build_sql_statement(request, FALSE)} :
          /\ statement' = r.outcome
          /\ builder' = r.builder
          /\ executed' =
                IF r.outcome.kind = "Ok"
                  THEN Some(ExplainStatement(StatementString(r.outcome.statement)))
                  ELSE None
          /\ pc' = IF r.outcome.kind = "Ok" THEN "executing" ELSE "failed"
    /\ route' = Some([path |-> "explain", request |-> request])
    /\ UNCHANGED <<bound, emitted, overflow_checks>>

\* the handler responds with the plan or with the error
ExplainRespond ==
    /\ pc \in {"executing", "failed"}
    /\ pc' = "idle"
    /\ builder' = NoBuilder
    /\ statement' = NoStatement
    /\ route' = None
    /\ executed' = None
    /\ UNCHANGED <<bound, emitted, overflow_checks>>

ExplainNext ==
    \/ \E request \in ExplainRequests : PostExplain(request)
    \/ ExplainRespond

ExplainSpec == Init /\ [][ExplainNext]_vars

-----------------------------------------------------------------------------
(* Reading the emitted AST *)

Compiled == pc = "done" /\ statement.kind = "Ok"
Bound == Compiled /\ builder.bind_params

\* the placeholders of an AST in the order a left-to-right reading meets
\* them: a query is read projection, FROM (each relation, then its joins in
\* order, a join's relation before its constraint), WHERE, GROUP BY,
\* ORDER BY, LIMIT
RECURSIVE Placeholders(_, _)
Placeholders(kind, x) ==
    CASE kind = "seq.expr" ->
            IF Len(x) = 0 THEN <<>>
            ELSE Placeholders("expr", Head(x)) \o Placeholders("seq.expr", Tail(x))
      [] kind = "seq.item" ->
            IF Len(x) = 0 THEN <<>>
            ELSE Placeholders("expr", Head(x).expr)
                    \o Placeholders("seq.item", Tail(x))
      [] kind = "seq.order" ->
            IF Len(x) = 0 THEN <<>>
            ELSE Placeholders("expr", Head(x).expr)
                    \o Placeholders("seq.order", Tail(x))
      [] kind = "seq.from" ->
            IF Len(x) = 0 THEN <<>>
            ELSE Placeholders("factor", Head(x).relation)
                    \o Placeholders("seq.join", Head(x).joins)
                    \o Placeholders("seq.from", Tail(x))
      [] kind = "seq.join" ->
            IF Len(x) = 0 THEN <<>>
            ELSE Placeholders("factor", Head(x).relation)
                    \o (IF Head(x).join_operator.j = "LeftOuter"
                          THEN Placeholders("expr", Head(x).join_operator.on)
                          ELSE <<>>)
                    \o Placeholders("seq.join", Tail(x))
      [] kind = "factor" ->
            (CASE x.t = "Table" -> <<>>
               [] x.t = "Derived" -> Placeholders("query", x.subquery)
               [] x.t = "TableFunction" -> Placeholders("expr", x.function))
      [] kind = "option" ->
            IF x.some THEN Placeholders("expr", x.v) ELSE <<>>
      [] kind = "query" ->
            Placeholders("seq.item", x.projection)
               \o Placeholders("seq.from", x.from)
               \o Placeholders("option", x.predicate)
               \o Placeholders("seq.expr", x.group_by)
               \o Placeholders("seq.order", x.order_by)
               \o Placeholders("option", x.limit)
      [] kind = "expr" ->
            CASE x.e = "Value" ->
                   IF x.value.v = "Placeholder" THEN <<x.value.s>> ELSE <<>>
              [] x.e \in {"Identifier", "CompoundIdentifier", "Wildcard"} -> <<>>
              [] x.e = "BinaryOp" ->
                   Placeholders("expr", x.left) \o Placeholders("expr", x.right)
              [] x.e \in {"UnaryOp", "Nested", "IsNull"} ->
                   Placeholders("expr", x.expr)
              [] x.e = "InList" ->
                   Placeholders("expr", x.expr) \o Placeholders("seq.expr", x.list)
              [] x.e = "Function" ->
                   Placeholders("seq.expr", x.args)
                      \o (IF x.over.some
                            THEN Placeholders("seq.expr", x.over.v.partition_by)
                                    \o Placeholders("seq.order", x.over.v.order_by)
                            ELSE <<>>)

\* the derived table aliased `alias` among the relations of a FROM clause
DerivedIn(from, alias) ==
    LET rels == IF Len(from) = 0 THEN <<>>
                ELSE <<from[1].relation>>
                        \o [i \in 1..Len(from[1].joins) |-> from[1].joins[i].relation]
        hits == {i \in 1..Len(rels) :
                    rels[i].t = "Derived" /\ rels[i].alias = Some(Quoted(alias))}
    IN IF hits = {} THEN None
       ELSE Some(rels[CHOOSE i \in hits : \A j \in hits : i <= j].subquery)

\* the select item aliased `alias` of a projection
ItemIn(projection, alias) ==
    LET hits == {i \in 1..Len(projection) :
                    projection[i].s = "ExprWithAlias"
                    /\ projection[i].alias = Quoted(alias)}
    IN IF hits = {} THEN None
       ELSE Some(projection[CHOOSE i \in hits : \A j \in hits : i <= j].expr)

\* the query sub-query of the root node
RootNode == statement.statement.from[1].relation.subquery

\* the type string the outer SELECT casts to
CastType == statement.statement.projection[1].expr.args[1].args[2].value.s

-----------------------------------------------------------------------------
(* Parameter binder: C1, C2, C3 *)

\* C1: with bind_params = true, for every request that compiles, the
\* insertion order of the parameter map (__placeholder__0, 1, 2, ...) is the
\* left-to-right order in which the placeholders occur in the emitted AST
\* (projection, then FROM with its joins in order, then WHERE).
C1_InsertionOrderIsAstOrder ==
    Bound => Placeholders("query", statement.statement) = Keys(builder.parameters)

\* C2: with bind_params = true, after any sequence of bind calls of one
\* builder the keys of the parameter map are exactly __placeholder__0 ..
\* __placeholder__{N-1} in insertion order, N the number of bind calls so far;
\* entry i still holds the i-th bound value (nothing is overwritten), the
\* next index is N, and a fresh builder starts at index 0 with an empty map.
C2_PlaceholderNames ==
    (pc = "binding" /\ builder.bind_params) =>
        /\ builder.parameter_index = Len(bound)
        /\ Len(builder.parameters) = Len(bound)
        /\ \A i \in 1..Len(bound) :
              /\ builder.parameters[i].k = "__placeholder__" \o ToString(i - 1)
              /\ builder.parameters[i].v = bound[i]
              /\ emitted[i] = ValueExpr(VPlaceholder(builder.parameters[i].k))

C2_Witness ==
    /\ pc = "binding"
    /\ builder.bind_params
    /\ Len(bound) >= 3
    /\ bound[1] = bound[2]
    /\ bound[2] # bound[3]

\* the literal values of a predicate: one per scalar comparison value, one
\* per element of an IN list, at any depth
RECURSIVE Literals(_, _)
Literals(kind, x) ==
    CASE kind = "seq.expression" ->
            IF Len(x) = 0 THEN 0
            ELSE Literals("expression", Head(x)) + Literals("seq.expression", Tail(x))
      [] kind = "option" ->
            IF x.some THEN Literals("expression", x.v) ELSE 0
      [] kind = "relations" ->
            IF Len(x) = 0 THEN 0
            ELSE Literals("option", Head(x).v.selection)
                    + Literals("relations", Head(x).v.subrelations)
                    + Literals("relations", Tail(x))
      [] kind = "order_by" ->
            IF x.some THEN Literals("relations", x.v.relations) ELSE 0
      [] kind = "expression" ->
            CASE x.k \in {"And", "Or"} -> Literals("seq.expression", x.expressions)
              [] x.k = "Not" -> Literals("expression", x.expression)
              [] x.k = "UnaryComparisonOperator" -> 0
              [] x.k = "BinaryComparisonOperator" ->
                    IF x.value.k = "ScalarValueComparison" THEN 1 ELSE 0
              [] x.k = "BinaryArrayComparisonOperator" -> Len(x.values)
              [] x.k = "Exists" -> Literals("expression", x.selection)

\* the literal values a query node itself carries: its selection and the
\* selections of its order-by relations
NodeLiterals(query) ==
    Literals("option", query.selection) + Literals("order_by", query.order_by)

RelationshipFields(query) ==
    IF query.fields.some
      THEN SelectSeq(query.fields.v, LAMBDA f : f.v.k = "Relationship")
      ELSE <<>>

\* the literal values of the whole request, each counted once
RECURSIVE LiteralCount(_)
RECURSIVE LiteralCountOfFields(_)
LiteralCountOfFields(fields) ==
    IF Len(fields) = 0 THEN 0
    ELSE LiteralCount(Head(fields).v.query) + LiteralCountOfFields(Tail(fields))
LiteralCount(query) ==
    NodeLiterals(query) + LiteralCountOfFields(RelationshipFields(query))

\* the literal values counted once for the rows sub-query of their node and
\* once for its aggregates sub-query
RECURSIVE BoundCount(_)
RECURSIVE BoundCountOfFields(_)
BoundCountOfFields(fields) ==
    IF Len(fields) = 0 THEN 0
    ELSE BoundCount(Head(fields).v.query) + BoundCountOfFields(Tail(fields))
BoundCount(query) ==
    ((IF query.fields.some THEN 1 ELSE 0) + (IF query.aggregates.some THEN 1 ELSE 0))
        * NodeLiterals(query)
    + BoundCountOfFields(RelationshipFields(query))

\* C3 as stated: with bind_params = true, for every request that compiles,
\* the size of the parameter map is the number of literal values in the
\* request.
C3_SizeIsLiteralCount ==
    Bound => Len(builder.parameters) = LiteralCount(builder.request.query)

\* C3 amended: the size of the parameter map is the sum, over the query nodes
\* reached through relationship fields, of the node's literal values (its
\* selection and its order-by relation selections) times the number of
\* sub-queries the node has (rows if it has fields, aggregates if it has
\* aggregates); limit, offset and foreach values are never bound.
C3_SizeIsBoundCount ==
    Bound => Len(builder.parameters) = BoundCount(builder.request.query)

C3_Witness ==
    /\ Bound
    /\ builder.request.query.fields.some
    /\ builder.request.query.aggregates.some
    /\ builder.request.query.limit.some
    /\ builder.request.query.offset.some
    /\ NodeLiterals(builder.request.query) > 0
    /\ Len(builder.parameters) = 2 * LiteralCount(builder.request.query)

-----------------------------------------------------------------------------
(* Envelope: C4, C5, C6, C7 *)

RootQuery == builder.request.query
HasForeach == builder.request.foreach.some

\* the scalar mapping as the envelope rule words it
MappedName(scalar_type) ==
    CASE scalar_type \in {"Complex", "Decimal"} -> "String"
      [] scalar_type = "Uuid" -> "UUID"
      [] scalar_type = "Json" -> "JSON"
      [] scalar_type = "DateTime64" -> "DateTime64(9)"
      [] OTHER -> scalar_type

\* the type of a column field or aggregate: by the rule's wording
\* (worded = TRUE) or by type_cast_string
LeafType(leaf, worded) ==
    CASE leaf.k \in {"StarCount", "ColumnCount"} -> "UInt32"
      [] leaf.k = "SingleColumn" ->
            IF worded THEN "Nullable(" \o MappedName(leaf.result_type) \o ")"
            ELSE type_cast_string(leaf.result_type)
      [] leaf.k = "Column" ->
            IF worded THEN "Nullable(" \o MappedName(leaf.column_type) \o ")"
            ELSE type_cast_string(leaf.column_type)

\* the query-object type grammar: a tuple of rows and/or aggregates by
\* presence, the row-tuple and agg-tuple listing their entries in request
\* order, relationship fields recursing.  empty_is_map: an entry-less
\* row-tuple or agg-tuple is Map(Nothing, Nothing) instead of Tuple()
RECURSIVE NodeType(_, _, _)
TupleType(entries, empty_is_map, worded) ==
    IF empty_is_map /\ Len(entries) = 0 THEN "Map(Nothing, Nothing)"
    ELSE "Tuple(" \o
         JoinStrings(
            [i \in 1..Len(entries) |->
               "\"" \o entries[i].k \o "\" " \o
               (IF entries[i].v.k = "Relationship"
                  THEN NodeType(entries[i].v.query, empty_is_map, worded)
                  ELSE LeafType(entries[i].v, worded))],
            ", ")
         \o ")"
NodeType(query, empty_is_map, worded) ==
    LET row_tuple == TupleType(query.fields.v, empty_is_map, worded)
        agg_tuple == TupleType(query.aggregates.v, empty_is_map, worded)
    IN CASE ~query.fields.some /\ ~query.aggregates.some -> "Map(Nothing, Nothing)"
         [] query.fields.some /\ ~query.aggregates.some ->
               "Tuple(rows Array(" \o row_tuple \o "))"
         [] ~query.fields.some /\ query.aggregates.some ->
               "Tuple(aggregates " \o agg_tuple \o ")"
         [] query.fields.some /\ query.aggregates.some ->
               "Tuple(rows Array(" \o row_tuple \o "), aggregates " \o agg_tuple \o ")"

\* ENVELOPE_TYPE around a query-object type
Envelope(type) ==
    IF HasForeach THEN "Tuple(rows Array(Tuple(query " \o type \o ")))" ELSE type

\* C4: for every request that compiles, the outer SELECT projects exactly one
\* column, aliased "query", whose expression is
\* toJSONString(cast(_query."query", '<ENVELOPE_TYPE>')), and its FROM is
\* exactly one derived table aliased _query with no joins; ENVELOPE_TYPE is
\* Tuple(rows Array(Tuple(query <query-object-type>))) when foreach is set
\* and the query-object type of the root node otherwise.
C4_OuterSelect ==
    Compiled =>
      LET outer == statement.statement
      IN /\ outer.projection =
              <<ExprWithAlias(
                  FunctionExpr(<<Unquoted("toJSONString")>>,
                     <<FunctionExpr(<<Unquoted("cast")>>,
                          <<CompoundIdentifier(<<Quoted("_query"), Quoted("query")>>),
                            ValueExpr(VString(Envelope(query_object_type(RootQuery))))>>,
                          None, FALSE)>>,
                     None, FALSE),
                  Quoted("query"))>>
         /\ Len(outer.from) = 1
         /\ outer.from[1].joins = <<>>
         /\ outer.from[1].relation.t = "Derived"
         /\ outer.from[1].relation.alias = Some(Quoted("_query"))

C4_Witness ==
    /\ Compiled
    /\ HasForeach
    /\ RootQuery.fields.some
    /\ RootQuery.aggregates.some

\* C5 as stated: for every query node the query-object type is
\* Map(Nothing, Nothing) without fields and aggregates,
\* Tuple(rows Array(<row-tuple>)) with fields only,
\* Tuple(aggregates <agg-tuple>) with aggregates only and
\* Tuple(rows Array(<row-tuple>), aggregates <agg-tuple>) with both, the
\* row-tuple being the Tuple("name" <type>, ...) of the node's fields in
\* request order, relationship fields recursing.
C5_QueryObjectType ==
    Compiled => CastType = Envelope(NodeType(RootQuery, FALSE, FALSE))

\* C5 amended: the same, except that a fields map that is present but has no
\* entry gives the row-tuple Map(Nothing, Nothing), and an aggregates map
\* that is present but has no entry gives the agg-tuple Map(Nothing, Nothing).
C5_QueryObjectTypeOrEmptyMap ==
    Compiled => CastType = Envelope(NodeType(RootQuery, TRUE, FALSE))

C5_Witness ==
    /\ Compiled
    /\ RootQuery.aggregates.some
    /\ \E i \in 1..Len(RelationshipFields(RootQuery)) :
          LET sub == RelationshipFields(RootQuery)[i].v.query
          IN /\ sub.aggregates.some
             /\ \E j \in 1..Len(RelationshipFields(sub)) :
                   LET leaf == RelationshipFields(sub)[j].v.query
                   IN leaf.fields.some /\ leaf.aggregates.some

\* C7: for every scalar-type tag T, the envelope type at the position of
\* each column field or single-column aggregate of type T is
\* Nullable(<map(T)>), where Complex and Decimal map to String, Uuid to UUID,
\* Json to JSON, DateTime64 to DateTime64(9) and every other tag to its own
\* name; StarCount and ColumnCount aggregates have type UInt32, not wrapped
\* in Nullable.
C7_ScalarTypeMapping ==
    /\ \A t \in ScalarTypes : type_cast_string(t) = "Nullable(" \o MappedName(t) \o ")"
    /\ Compiled => CastType = Envelope(NodeType(RootQuery, TRUE, TRUE))

C7_Witness ==
    /\ Compiled
    /\ RootQuery.fields = Some(<<Entry("c", ColumnField("c", "Decimal"))>>)
    /\ RootQuery.aggregates = Some(<<Entry("a", SingleColumn("c", "Min", "Decimal"))>>)
    /\ CastType = "Tuple(rows Array(Tuple(\"c\" Nullable(String))), aggregates Tuple(\"a\" Nullable(String)))"

\* is `x` the call name(args...) of a plain SQL function
IsCall(x, name) ==
    /\ x.e = "Function"
    /\ x.name = <<Unquoted(name)>>
    /\ ~x.over.some

\* the type whose shape an emitted value expression has, read off the AST:
\* map() reads Map(Nothing, Nothing); tuple(...) reads Tuple(...) with one
\* component per argument, in the order of the arguments; _rows.rows reads
\* the array of what the rows sub-query groups, _aggregates.aggregates what
\* the aggregates sub-query projects; tuple(groupArray(tuple(q))) reads the
\* foreach wrapper around q.  Names and scalar types are those of the
\* request entry at the same position; "?" marks what has no counterpart.
RECURSIVE ShapeOfNode(_, _)

\* rows sub-query `rows` of the node `query`
ShapeOfRows(rows, query) ==
    LET grouped == ItemIn(rows.projection, "rows")
        row == DerivedIn(rows.from, "_row")
        fields == query.fields.v
        ColumnShape(i, column) ==
            IF i > Len(fields)
                  \/ column # CompoundIdentifier(
                                 <<Quoted("_row"), Quoted(ProjectionCol(fields[i].k))>>)
              THEN "?"
            ELSE
              LET item == ItemIn(row.v.projection, ProjectionCol(fields[i].k))
                  related == CompoundIdentifier(
                                <<Quoted("_rel." \o fields[i].k), Quoted("query")>>)
                  type ==
                    IF ~item.some THEN "?"
                    ELSE IF item.v = related
                      THEN LET sub == DerivedIn(row.v.from, "_rel." \o fields[i].k)
                           IN IF sub.some /\ fields[i].v.k = "Relationship"
                                THEN ShapeOfNode(sub.v, fields[i].v.query)
                                ELSE "?"
                    ELSE IF fields[i].v.k = "Column"
                      THEN type_cast_string(fields[i].v.column_type)
                    ELSE "?"
              IN "\"" \o fields[i].k \o "\" " \o type
    IN IF ~grouped.some \/ ~row.some \/ ~query.fields.some THEN "?"
       ELSE IF ~IsCall(grouped.v, "groupArray") \/ Len(grouped.v.args) # 1 THEN "?"
       ELSE LET element == grouped.v.args[1]
            IN IF IsCall(element, "map") /\ element.args = <<>>
                 THEN "Array(Map(Nothing, Nothing))"
               ELSE IF IsCall(element, "tuple")
                 THEN "Array(Tuple(" \o
                      JoinStrings([i \in 1..Len(element.args) |->
                                      ColumnShape(i, element.args[i])], ", ")
                      \o "))"
               ELSE "?"

\* aggregates sub-query `aggs` of the node `query`
ShapeOfAggregates(aggs, query) ==
    LET projected == ItemIn(aggs.projection, "aggregates")
        aggregates == query.aggregates.v
        ColumnShape(i, column) ==
            IF i > Len(aggregates) \/ column.e # "Function" THEN "?"
            ELSE "\"" \o aggregates[i].k \o "\" " \o aggregate_type(aggregates[i].v)
    IN IF ~projected.some \/ ~query.aggregates.some THEN "?"
       ELSE IF IsCall(projected.v, "map") /\ projected.v.args = <<>>
         THEN "Map(Nothing, Nothing)"
       ELSE IF IsCall(projected.v, "tuple")
         THEN "Tuple(" \o
              JoinStrings([i \in 1..Len(projected.v.args) |->
                              ColumnShape(i, projected.v.args[i])], ", ")
              \o ")"
       ELSE "?"

\* the tuple(...) / map() of a node, whose sub-queries are those of `from`
ShapeOfQueryExpr(x, from, query) ==
    LET Component(arg) ==
            IF arg = CompoundIdentifier(<<Quoted("_rows"), Quoted("rows")>>)
              THEN LET rows == DerivedIn(from, "_rows")
                   IN IF rows.some THEN "rows " \o ShapeOfRows(rows.v, query)
                      ELSE "?"
            ELSE IF arg = CompoundIdentifier(
                             <<Quoted("_aggregates"), Quoted("aggregates")>>)
              THEN LET aggs == DerivedIn(from, "_aggregates")
                   IN IF aggs.some
                        THEN "aggregates " \o ShapeOfAggregates(aggs.v, query)
                        ELSE "?"
            ELSE "?"
    IN IF IsCall(x, "map") /\ x.args = <<>> THEN "Map(Nothing, Nothing)"
       ELSE IF IsCall(x, "tuple")
         THEN "Tuple(" \o
              JoinStrings([i \in 1..Len(x.args) |-> Component(x.args[i])], ", ")
              \o ")"
       ELSE "?"

\* query sub-query `node` of the node `query`
ShapeOfNode(node, query) ==
    LET item == ItemIn(node.projection, "query")
        Wrapped(x) ==
            /\ IsCall(x, "tuple") /\ Len(x.args) = 1
            /\ IsCall(x.args[1], "groupArray") /\ Len(x.args[1].args) = 1
            /\ IsCall(x.args[1].args[1], "tuple") /\ Len(x.args[1].args[1].args) = 1
            /\ x.args[1].args[1].args[1].e = "Function"
    IN IF ~item.some THEN "?"
       ELSE IF Wrapped(item.v)
         THEN "Tuple(rows Array(Tuple(query "
                 \o ShapeOfQueryExpr(item.v.args[1].args[1].args[1], node.from, query)
                 \o ")))"
       ELSE ShapeOfQueryExpr(item.v, node.from, query)

\* C6: for every request that compiles, the value expression emitted for
\* each query node has the shape of that node's envelope type, recursively:
\* map() where the type is Map(Nothing, Nothing), a tuple of rows and/or
\* aggregates in the presence and order of the type, groupArray(tuple(...))
\* over the fields and tuple(...) over the aggregates with the arity and
\* order of the row-tuple and agg-tuple, and the foreach wrapper
\* tuple(groupArray(tuple(q))) at the root when foreach is set and at no
\* nested relationship level.
C6_ExpressionShapeIsEnvelopeShape ==
    Compiled => ShapeOfNode(RootNode, RootQuery) = CastType

C6_Witness ==
    /\ Compiled
    /\ HasForeach
    /\ RootQuery.fields.some
    /\ RootQuery.aggregates.some
    /\ RootQuery.aggregates.v # <<>>
    /\ \E i \in 1..Len(RelationshipFields(RootQuery)) :
          LET sub == RelationshipFields(RootQuery)[i].v.query
          IN \E j \in 1..Len(RelationshipFields(sub)) :
                LET leaf == RelationshipFields(sub)[j].v.query
                IN leaf.fields.some /\ leaf.aggregates.some
    /\ ShapeOfNode(RootNode, RootQuery) = foreach_object_type(RootQuery)

-----------------------------------------------------------------------------
(* Pagination: C8, C9 *)

\* the exact sum of two u64: four limbs when it is below 2^64, five (the
\* carry first) when it is not
ExactSum(a, b) ==
    LET sum == U64Add(a, b)
    IN IF sum.overflow THEN <<1>> \o sum.value ELSE sum.value

\* does limit + offset exceed the unsigned 64-bit range
Exceeds(limit, offset) ==
    limit.some /\ offset.some /\ U64Add(limit.v, offset.v).overflow

\* the filter on _row._rn of a window (limit, offset)
RnFilter(limit, offset) ==
    CASE ~limit.some /\ ~offset.some -> None
      [] ~limit.some /\ offset.some ->
            Some(BinaryOp(RowRn, "Gt", ValueExpr(VNumber(offset.v))))
      [] limit.some /\ ~offset.some ->
            Some(BinaryOp(RowRn, "LtEq", ValueExpr(VNumber(limit.v))))
      [] limit.some /\ offset.some ->
            Some(BinaryOp(BinaryOp(RowRn, "Gt", ValueExpr(VNumber(offset.v))),
                          "And",
                          BinaryOp(RowRn, "LtEq",
                                   ValueExpr(VNumber(ExactSum(limit.v, offset.v))))))

RootRows == DerivedIn(RootNode.from, "_rows")
RootAggregates == DerivedIn(RootNode.from, "_aggregates")

\* C8: given limit = L and offset = O, the predicate emitted on _row._rn is
\* _rn > O AND _rn <= L + O; with only an offset it is _rn > O, with only a
\* limit _rn <= L, with neither there is no predicate.  The rows sub-query
\* applies this to (limit, offset), the aggregates sub-query to
\* (aggregates_limit, offset).
C8_Pagination ==
    Compiled =>
      /\ RootQuery.fields.some =>
            /\ RootRows.some
            /\ RootRows.v.predicate = RnFilter(RootQuery.limit, RootQuery.offset)
      /\ RootQuery.aggregates.some =>
            /\ RootAggregates.some
            /\ RootAggregates.v.predicate =
                  RnFilter(RootQuery.aggregates_limit, RootQuery.offset)

\* C9: when limit and offset are both present and limit + offset exceeds the
\* unsigned 64-bit range, the compile fails with an Internal error returned
\* to the caller as an error value: the process does not abort and no
\* predicate with a wrapped upper bound is emitted.
C9_OverflowIsInternalError ==
    (/\ pc = "done"
     /\ \/ RootQuery.fields.some /\ Exceeds(RootQuery.limit, RootQuery.offset)
        \/ RootQuery.aggregates.some
              /\ Exceeds(RootQuery.aggregates_limit, RootQuery.offset))
    => (statement.kind = "Err" /\ statement.err.kind = "Internal")

-----------------------------------------------------------------------------
(* Rows joined to aggregates: C10 *)

\* is the FROM of `node` the rows sub-query joined to the aggregates
\* sub-query by `operator`
RowsJoinAggregates(node, operator) ==
    /\ Len(node.from) = 1
    /\ node.from[1].relation.t = "Derived"
    /\ node.from[1].relation.alias = Some(Quoted("_rows"))
    /\ Len(node.from[1].joins) = 1
    /\ node.from[1].joins[1].relation.t = "Derived"
    /\ node.from[1].joins[1].relation.alias = Some(Quoted("_aggregates"))
    /\ node.from[1].joins[1].join_operator = operator

\* is the FROM of `node` the _foreach table with the rows and the aggregates
\* sub-queries each LEFT OUTER joined to it
ForeachJoinsRowsAndAggregates(node) ==
    /\ Len(node.from) = 1
    /\ node.from[1].relation.t = "TableFunction"
    /\ node.from[1].relation.alias = Some(Quoted("_foreach"))
    /\ Len(node.from[1].joins) = 2
    /\ \A i \in 1..2 :
          /\ node.from[1].joins[i].relation.t = "Derived"
          /\ node.from[1].joins[i].relation.alias =
                Some(Quoted(IF i = 1 THEN "_rows" ELSE "_aggregates"))
          /\ node.from[1].joins[i].join_operator.j = "LeftOuter"

\* FULL OUTER JOIN USING ("_selection.<col>", ...) over the parent join
\* columns, CROSS JOIN without parent join columns
StatedOperator(join_cols) ==
    IF join_cols = <<>> THEN CrossJoin
    ELSE FullOuterUsing([i \in 1..Len(join_cols) |->
                           Quoted("_selection." \o join_cols[i])])

\* the rule at the node `query` (emitted as `node`, over `table`, with the
\* parent join columns `join_cols`) and at every node below it;
\* foreach_aware: a node compiled under foreach is held to the foreach form
RECURSIVE JoinRuleHolds(_, _, _, _, _, _)
JoinRuleHolds(node, query, table, join_cols, foreach, foreach_aware) ==
    /\ (query.fields.some /\ query.aggregates.some) =>
          IF foreach /\ foreach_aware
            THEN ForeachJoinsRowsAndAggregates(node)
            ELSE RowsJoinAggregates(node, StatedOperator(join_cols))
    /\ \A i \in 1..Len(RelationshipFields(query)) :
          LET name == RelationshipFields(query)[i].k
              field == RelationshipFields(query)[i].v
              relationship == table_relationship(builder, table, field.relationship)
              rows == DerivedIn(node.from, "_rows")
              row == DerivedIn(rows.v.from, "_row")
              sub == DerivedIn(row.v.from, "_rel." \o name)
          IN /\ relationship.ok /\ rows.some /\ row.some /\ sub.some
             /\ JoinRuleHolds(sub.v, field.query, relationship.val.target_table,
                              Values(relationship.val.column_mapping),
                              FALSE, foreach_aware)

\* C10 as stated: every query node with both fields and aggregates, at the
\* root or nested, with or without foreach, has a FROM that joins the rows
\* sub-query to the aggregates sub-query with FULL OUTER JOIN USING
\* (_selection.<col>, ...) over the parent join columns if it has any, and
\* with CROSS JOIN otherwise.
C10_RowsJoinAggregates ==
    Compiled =>
      JoinRuleHolds(RootNode, RootQuery, builder.request.table, <<>>,
                    HasForeach, FALSE)

\* C10 amended: the same for every node not compiled under foreach; the
\* root node of a foreach request has the _foreach table as its FROM, with
\* the rows sub-query and the aggregates sub-query each LEFT OUTER joined to
\* it and not to each other.
C10_RowsJoinAggregatesUnlessForeach ==
    Compiled =>
      JoinRuleHolds(RootNode, RootQuery, builder.request.table, <<>>,
                    HasForeach, TRUE)

\* a root with both (CROSS JOIN) over a nested node with both and parent
\* join columns (FULL OUTER JOIN)
C10_Witness ==
    /\ Compiled
    /\ ~HasForeach
    /\ RootQuery.fields.some
    /\ RootQuery.aggregates.some
    /\ RowsJoinAggregates(RootNode, CrossJoin)
    /\ \E i \in 1..Len(RelationshipFields(RootQuery)) :
          LET sub == RelationshipFields(RootQuery)[i].v.query
          IN \E j \in 1..Len(RelationshipFields(sub)) :
                LET leaf == RelationshipFields(sub)[j].v.query
                IN /\ leaf.fields.some /\ leaf.aggregates.some
                   /\ RelationshipFields(sub)[j].v.relationship = "items"

-----------------------------------------------------------------------------
(* Foreach: C11, C12 *)

\* the join keys of a foreach request: the keys of its first binding row
ForeachKeys == Keys(builder.request.foreach.v[1])

\* e1 AND e2 AND ... AND en, grouped from the left; TRUE without operands
RECURSIVE ConjunctionOf(_, _)
ConjunctionOf(exprs, n) ==
    IF n = 0 THEN ValueExpr(VBoolean(TRUE))
    ELSE IF n = 1 THEN exprs[1]
    ELSE BinaryOp(ConjunctionOf(exprs, n - 1), "And", exprs[n])

\* _foreach.<k> = <alias>."_foreach.<k>" for every key, ANDed
ForeachOn(alias, keys) ==
    ConjunctionOf([i \in 1..Len(keys) |->
                     BinaryOp(CompoundIdentifier(<<Quoted("_foreach"),
                                                   Quoted(keys[i])>>),
                              "Eq",
                              CompoundIdentifier(<<Quoted(alias),
                                                   Quoted("_foreach." \o keys[i])>>))],
                  Len(keys))

\* the aliases of the sub-queries a node has, rows first
PresentSubqueries(query) ==
    (IF query.fields.some THEN <<"_rows">> ELSE <<>>)
       \o (IF query.aggregates.some THEN <<"_aggregates">> ELSE <<>>)

\* does `subquery` project and group by the column "_foreach.<key>"
CarriesForeachColumn(subquery, key) ==
    LET column == CompoundIdentifier(<<Quoted("_row"), Quoted("_foreach." \o key)>>)
    IN /\ \E i \in 1..Len(subquery.projection) :
             subquery.projection[i] = UnnamedExpr(column)
       /\ \E i \in 1..Len(subquery.group_by) : subquery.group_by[i] = column

\* C11: with foreach, the FROM of the root query node is the _foreach table
\* with one LEFT OUTER JOIN per present sub-query (_rows, then _aggregates),
\* each ON the conjunction over the foreach keys (the keys of the first
\* binding row) of _foreach.<k> = <sub-query>."_foreach.<k>", ON TRUE when
\* there is no key; rows and aggregates are not joined to each other, and
\* each sub-query projects and groups by every "_foreach.<k>" its ON names.
C11_ForeachFrom ==
    (Compiled /\ HasForeach) =>
       LET present == PresentSubqueries(RootQuery)
           from == RootNode.from
       IN /\ Len(from) = 1
          /\ from[1].relation.t = "TableFunction"
          /\ from[1].relation.alias = Some(Quoted("_foreach"))
          /\ Len(from[1].joins) = Len(present)
          /\ \A i \in 1..Len(present) :
                /\ from[1].joins[i].relation.t = "Derived"
                /\ from[1].joins[i].relation.alias = Some(Quoted(present[i]))
                /\ from[1].joins[i].join_operator =
                      LeftOuterOn(ForeachOn(present[i], ForeachKeys))
                /\ \A k \in 1..Len(ForeachKeys) :
                      CarriesForeachColumn(from[1].joins[i].relation.subquery,
                                           ForeachKeys[k])

\* rows and aggregates both joined to _foreach on two keys
C11_Witness ==
    /\ Compiled
    /\ HasForeach
    /\ Len(ForeachKeys) = 2
    /\ PresentSubqueries(RootQuery) = <<"_rows", "_aggregates">>
    /\ Len(RootNode.from[1].joins) = 2
    /\ RootNode.from[1].joins[2].join_operator.on.e = "BinaryOp"
    /\ RootNode.from[1].joins[2].join_operator.on.op = "And"

\* the binding rows of a foreach request
ForeachRows == builder.request.foreach.v

\* the keys of the first n binding rows, each at its first occurrence
RECURSIVE KeysUpTo(_, _)
KeysUpTo(rows, n) ==
    IF n = 0 THEN <<>>
    ELSE LET before == KeysUpTo(rows, n - 1)
         IN before \o SelectSeq(Keys(rows[n]),
                                LAMBDA k : \A j \in 1..Len(before) : before[j] # k)

\* the values bound to `key` in the first n binding rows, in row order
RECURSIVE ValuesUpTo(_, _, _)
ValuesUpTo(rows, key, n) ==
    IF n = 0 THEN <<>>
    ELSE ValuesUpTo(rows, key, n - 1)
            \o (IF IndexOfKey(rows[n], key) # 0
                  THEN <<rows[n][IndexOfKey(rows[n], key)].v.value>>
                  ELSE <<>>)

\* {"k1":[v,...],"k2":[v,...]} over `keys`, each array the values of its key
JsonColumns(rows, keys) ==
    "{" \o JoinStrings(
             [i \in 1..Len(keys) |->
                "\"" \o keys[i] \o "\":["
                   \o JoinStrings(
                         [j \in 1..Len(ValuesUpTo(rows, keys[i], Len(rows))) |->
                            JsonText(ValuesUpTo(rows, keys[i], Len(rows))[j])],
                         ",")
                   \o "]"],
             ",")
        \o "}"

\* do all binding rows have the keys of the first one, in any order
SameKeySets(rows) ==
    \A n \in 1..Len(rows) :
       {rows[n][i].k : i \in 1..Len(rows[n])} = {rows[1][i].k : i \in 1..Len(rows[1])}

\* the keys k an ON clause compares as _foreach.<k> = ...
RECURSIVE OnKeys(_)
OnKeys(on) ==
    IF on.e = "BinaryOp" /\ on.op = "And" THEN OnKeys(on.left) \cup OnKeys(on.right)
    ELSE IF on.e = "BinaryOp" /\ on.op = "Eq" THEN {on.left.idents[2].value}
    ELSE {}

\* is `key` one of the keys the joins of the root FROM correlate on
IsJoinKey(key) ==
    \E i \in 1..Len(RootNode.from[1].joins) :
       key \in OnKeys(RootNode.from[1].joins[i].join_operator.on)

\* C12: with foreach, the _foreach table is format(JSONColumns, '<json>')
\* where <json> is a column-oriented object: its keys are those of the first
\* binding row in that row's order (followed by the keys only later rows
\* have), and the array of key k holds the values of k over the rows in row
\* order.  When all rows share one key set every array has one value per
\* row and the join keys are the JSON keys; otherwise the join keys are the
\* keys of the first row only, while the object still has the keys and the
\* values of the later rows.
C12_ForeachJsonColumns ==
    (Compiled /\ HasForeach) =>
       LET rows == ForeachRows
           keys == KeysUpTo(rows, Len(rows))
           joined == PresentSubqueries(RootQuery) # <<>>
       IN /\ RootNode.from[1].relation =
                TableFactorFunction(
                   FunctionExpr(<<Unquoted("format")>>,
                                <<Identifier(Unquoted("JSONColumns")),
                                  ValueExpr(VString(JsonColumns(rows, keys)))>>,
                                None, FALSE),
                   Some(Quoted("_foreach")))
          /\ SubSeq(keys, 1, Len(rows[1])) = Keys(rows[1])
          /\ \A i \in 1..Len(keys) :
                /\ \A n \in 1..Len(rows) :
                      IndexOfKey(rows[n], keys[i]) # 0
                         => \E j \in 1..Len(ValuesUpTo(rows, keys[i], Len(rows))) :
                               /\ j = Len(ValuesUpTo(rows, keys[i], n))
                               /\ ValuesUpTo(rows, keys[i], Len(rows))[j]
                                     = rows[n][IndexOfKey(rows[n], keys[i])].v.value
                /\ SameKeySets(rows)
                      => Len(ValuesUpTo(rows, keys[i], Len(rows))) = Len(rows)
                /\ joined => (IsJoinKey(keys[i]) <=> i <= Len(rows[1]))
          /\ SameKeySets(rows) => Len(keys) = Len(rows[1])

\* two binding rows, the second with a key the first does not have: the
\* object has both keys, the joins correlate on the first only
C12_Witness ==
    /\ Compiled
    /\ HasForeach
    /\ Len(ForeachRows) = 2
    /\ ~SameKeySets(ForeachRows)
    /\ Len(ForeachRows[1]) = 1
    /\ PresentSubqueries(RootQuery) # <<>>
    /\ RootNode.from[1].relation.function.args[2]
          = ValueExpr(VString("{\"user_id\":[1,2],\"org\":[\"acme\"]}"))
    /\ IsJoinKey("user_id")
    /\ ~IsJoinKey("org")

-----------------------------------------------------------------------------
(* Relationship lookup: C13 *)

Failed == pc = "done" /\ statement.kind = "Err"

\* the tables and the relationship names a lookup is tried with
LookupTables == {Users, Orders, Items, Flags}
LookupNames == {"orders", "posts", "items", "buyer", "maker", "unknown"}

\* the bundles of `table` in table_relationships
BundlesOf(table) ==
    {i \in 1..Len(builder.request.table_relationships) :
        builder.request.table_relationships[i].source_table = table}

\* is `name` a relationship of the first bundle of `table`
DeclaredOn(table, name) ==
    /\ BundlesOf(table) # {}
    /\ \E i \in BundlesOf(table) :
          /\ \A j \in BundlesOf(table) : i <= j
          /\ \E r \in 1..Len(builder.request.table_relationships[i].relationships) :
                builder.request.table_relationships[i].relationships[r].k = name

\* the relationship `name` declared on `table`
DeclaredRelationship(table, name) ==
    LET i == CHOOSE b \in BundlesOf(table) : \A j \in BundlesOf(table) : b <= j
        rels == builder.request.table_relationships[i].relationships
    IN rels[CHOOSE r \in 1..Len(rels) : rels[r].k = name].v

\* the lookups [table, name] a compile makes for a selection, an order_by
\* relations map and a query node when no lookup before them fails; nothing
\* is looked up below a relationship that is not declared
RECURSIVE SelectionLookups(_, _)
RECURSIVE RelationLookups(_, _, _)
RECURSIVE NodeLookups(_, _)

SelectionLookups(expression, table) ==
    CASE expression.k \in {"And", "Or"} ->
            UNION {SelectionLookups(expression.expressions[i], table) :
                      i \in 1..Len(expression.expressions)}
      [] expression.k = "Not" -> SelectionLookups(expression.expression, table)
      [] expression.k = "Exists" ->
            IF expression.in_table.k = "RelatedTable"
              THEN {[table |-> table, name |-> expression.in_table.relationship]}
                   \cup (IF DeclaredOn(table, expression.in_table.relationship)
                           THEN SelectionLookups(
                                   expression.selection,
                                   DeclaredRelationship(
                                      table,
                                      expression.in_table.relationship).target_table)
                           ELSE {})
              ELSE SelectionLookups(expression.selection, expression.in_table.table)
      [] OTHER -> {}

RelationLookups(relations, table, i) ==
    IF i > Len(relations) THEN {}
    ELSE {[table |-> table, name |-> relations[i].k]}
         \cup (IF DeclaredOn(table, relations[i].k)
                 THEN RelationLookups(
                         relations[i].v.subrelations,
                         DeclaredRelationship(table, relations[i].k).target_table, 1)
                      \cup (IF relations[i].v.selection.some
                              THEN SelectionLookups(relations[i].v.selection.v, table)
                              ELSE {})
                 ELSE {})
         \cup RelationLookups(relations, table, i + 1)

NodeLookups(query, table) ==
    (IF query.fields.some \/ query.aggregates.some
       THEN (IF query.order_by.some
               THEN RelationLookups(query.order_by.v.relations, table, 1) ELSE {})
            \cup (IF query.selection.some
                    THEN SelectionLookups(query.selection.v, table) ELSE {})
       ELSE {})
    \cup UNION {LET field == RelationshipFields(query)[i].v
                IN {[table |-> table, name |-> field.relationship]}
                   \cup (IF DeclaredOn(table, field.relationship)
                           THEN NodeLookups(
                                   field.query,
                                   DeclaredRelationship(
                                      table, field.relationship).target_table)
                           ELSE {}) :
                  i \in 1..Len(RelationshipFields(query))}

RequestLookups == NodeLookups(RootQuery, builder.request.table)

\* C13: a relationship lookup fails with TableMissing(table) when no bundle
\* of table_relationships has that source table, with
\* RelationshipMissingInTable(rel, table) when the bundle lacks the name, and
\* returns the relationship otherwise; so a compile that succeeds has found
\* every relationship it looked up (for a field, an order-by relation or an
\* Exists) declared on the table it was looked up on, never on another one,
\* and a compile that fails with one of the two errors made that lookup.
C13_RelationshipLookup ==
    /\ \A table \in LookupTables, name \in LookupNames :
          table_relationship(builder, table, name) =
             IF BundlesOf(table) = {}
               THEN Err([kind |-> "TableMissing", table |-> table], builder)
             ELSE IF ~DeclaredOn(table, name)
               THEN Err([kind |-> "RelationshipMissingInTable",
                         relationship |-> name, table |-> table], builder)
             ELSE Ok(DeclaredRelationship(table, name), builder)
    /\ Compiled => \A l \in RequestLookups : DeclaredOn(l.table, l.name)
    /\ (Failed /\ statement.err.kind = "TableMissing") =>
          /\ BundlesOf(statement.err.table) = {}
          /\ \E l \in RequestLookups : l.table = statement.err.table
    /\ (Failed /\ statement.err.kind = "RelationshipMissingInTable") =>
          /\ BundlesOf(statement.err.table) # {}
          /\ ~DeclaredOn(statement.err.table, statement.err.relationship)
          /\ [table |-> statement.err.table,
              name |-> statement.err.relationship] \in RequestLookups

\* a field over `items`, which db.orders declares and db.users does not
C13_Witness ==
    /\ Failed
    /\ statement.err = [kind |-> "RelationshipMissingInTable",
                        relationship |-> "items", table |-> Users]
    /\ \E i \in 1..Len(RelationshipFields(RootQuery)) :
          RelationshipFields(RootQuery)[i].v.relationship = "items"
    /\ DeclaredOn(Orders, "items")

-----------------------------------------------------------------------------
(* Rejected comparisons: C14 *)

\* the comparisons of a selection in the order the compile meets them
RECURSIVE ComparisonsOf(_)
RECURSIVE ComparisonsOfAll(_, _)
ComparisonsOfAll(expressions, i) ==
    IF i > Len(expressions) THEN <<>>
    ELSE ComparisonsOf(expressions[i]) \o ComparisonsOfAll(expressions, i + 1)

ComparisonsOf(expression) ==
    CASE expression.k \in {"And", "Or"} ->
            ComparisonsOfAll(expression.expressions, 1)
      [] expression.k = "Not" -> ComparisonsOf(expression.expression)
      [] expression.k = "Exists" -> ComparisonsOf(expression.selection)
      [] OTHER -> <<expression>>

HasPath(comparison) ==
    comparison.column.path.some /\ comparison.column.path.v # <<>>

ComparesColumns(comparison) ==
    /\ comparison.k = "BinaryComparisonOperator"
    /\ comparison.value.k = "AnotherColumnComparison"

RightHandError(comparison) ==
    [kind |-> "RightHandColumnComparisonNotSupported",
     column |-> comparison.value.column.name]

PathError(comparison) ==
    [kind |-> "UnsupportedColumnComparisonPath", path |-> comparison.column.path.v]

\* the errors the rule demands for one comparison, each rule taken alone
DemandedErrors(comparison) ==
    (IF ComparesColumns(comparison) THEN {RightHandError(comparison)} ELSE {})
       \cup (IF HasPath(comparison) THEN {PathError(comparison)} ELSE {})

\* the same with the column checked before the value
DemandedError(comparison) ==
    IF HasPath(comparison) THEN PathError(comparison)
                           ELSE RightHandError(comparison)

\* the first comparison of a selection that one of the two rules rejects
FirstRejected(expression) ==
    LET cs == ComparisonsOf(expression)
        bad == {i \in 1..Len(cs) : DemandedErrors(cs[i]) # {}}
    IN IF bad = {} THEN None
       ELSE Some(cs[CHOOSE i \in bad : \A j \in bad : i <= j])

\* selections over db.users whose relationships are all declared
ComparisonSelections ==
    {s \in UserSelections \cup RejectedSelections :
        \A l \in SelectionLookups(s, Users) : DeclaredOn(l.table, l.name)}

\* the selections a compile of the request compiles when no lookup fails:
\* those of the nodes with fields or aggregates and of their order-by relations
RECURSIVE RelationSelections(_, _, _)
RECURSIVE NodeSelections(_, _)
RelationSelections(relations, table, i) ==
    IF i > Len(relations) THEN {}
    ELSE (IF DeclaredOn(table, relations[i].k)
            THEN RelationSelections(
                    relations[i].v.subrelations,
                    DeclaredRelationship(table, relations[i].k).target_table, 1)
                 \cup (IF relations[i].v.selection.some
                         THEN {relations[i].v.selection.v} ELSE {})
            ELSE {})
         \cup RelationSelections(relations, table, i + 1)

NodeSelections(query, table) ==
    (IF query.fields.some \/ query.aggregates.some
       THEN (IF query.order_by.some
               THEN RelationSelections(query.order_by.v.relations, table, 1)
               ELSE {})
            \cup (IF query.selection.some THEN {query.selection.v} ELSE {})
       ELSE {})
    \cup UNION {LET field == RelationshipFields(query)[i].v
                IN IF DeclaredOn(table, field.relationship)
                     THEN NodeSelections(
                             field.query,
                             DeclaredRelationship(table,
                                                  field.relationship).target_table)
                     ELSE {} :
                  i \in 1..Len(RelationshipFields(query))}

RequestSelections == NodeSelections(RootQuery, builder.request.table)

\* the rule for the columns and for whole requests, shared by both readings
ComparisonRuleAtRequest ==
    /\ \A alias \in {"_origin", "_exists_0", "_origin.1"},
          column \in {Column("age"), ColumnVia("age", <<>>),
                      ColumnVia("age", <<"orders">>)} :
          comparison_column(builder, alias, column) =
             IF column.path.some /\ column.path.v # <<>>
               THEN Err([kind |-> "UnsupportedColumnComparisonPath",
                         path |-> column.path.v], builder)
               ELSE Ok(CompoundIdentifier(<<Quoted(alias), Quoted(column.name)>>),
                       builder)
    /\ Compiled => \A s \in RequestSelections : ~FirstRejected(s).some
    /\ (Failed /\ statement.err.kind = "RightHandColumnComparisonNotSupported") =>
          \E s \in RequestSelections :
             \E i \in 1..Len(ComparisonsOf(s)) :
                /\ ComparesColumns(ComparisonsOf(s)[i])
                /\ RightHandError(ComparisonsOf(s)[i]) = statement.err
    /\ (Failed /\ statement.err.kind = "UnsupportedColumnComparisonPath") =>
          \E s \in RequestSelections :
             \E i \in 1..Len(ComparisonsOf(s)) :
                /\ HasPath(ComparisonsOf(s)[i])
                /\ PathError(ComparisonsOf(s)[i]) = statement.err

\* C14 as stated: every binary comparison against another column is rejected
\* with RightHandColumnComparisonNotSupported and every unary, binary or IN
\* comparison on a column with a non-empty path with
\* UnsupportedColumnComparisonPath, at any depth of And / Or / Not / Exists
\* and in origin and non-origin mode; a column with no path or an empty one
\* compiles to <table_alias>.<col>.
C14_RejectedComparisons ==
    /\ ComparisonRuleAtRequest
    /\ \A s \in ComparisonSelections, origin \in BOOLEAN :
          LET r == selection_expression(builder, s, 0, origin, "_origin", Users)
              first == FirstRejected(s)
          IN IF first.some
               THEN /\ ~r.ok
                    /\ \A e \in DemandedErrors(first.v) : r.err = e
               ELSE r.ok

\* C14 amended: the same, except that a binary comparison that has both a
\* column with a non-empty path and another column as its value is rejected
\* with UnsupportedColumnComparisonPath: the column is checked before the value.
C14_RejectedComparisonsColumnFirst ==
    /\ ComparisonRuleAtRequest
    /\ \A s \in ComparisonSelections, origin \in BOOLEAN :
          LET r == selection_expression(builder, s, 0, origin, "_origin", Users)
              first == FirstRejected(s)
          IN IF first.some
               THEN /\ ~r.ok
                    /\ r.err = DemandedError(first.v)
               ELSE r.ok

\* a request rejected for a comparison against another column two EXISTS
\* deep, in non-origin mode
C14_Witness ==
    /\ Failed
    /\ statement.err = [kind |-> "RightHandColumnComparisonNotSupported",
                        column |-> "price"]
    /\ RootQuery.selection.some
    /\ RootQuery.selection.v.k = "Exists"
    /\ RootQuery.selection.v.selection.k = "Exists"
    /\ ComparesColumns(RootQuery.selection.v.selection.selection)

-----------------------------------------------------------------------------
(* Error propagation: C15 *)

\* the first of two optional events
FirstOf(a, b) == IF a.some THEN a ELSE b

ErrorEvent(error) == Some([panic |-> FALSE, err |-> error])
PanicEvent == Some([panic |-> TRUE])

\* the error, if any, of looking `name` up on `table`
LookupEvent(table, name) ==
    IF BundlesOf(table) = {}
      THEN ErrorEvent([kind |-> "TableMissing", table |-> table])
    ELSE IF ~DeclaredOn(table, name)
      THEN ErrorEvent([kind |-> "RelationshipMissingInTable",
                       relationship |-> name, table |-> table])
    ELSE None

\* the first error met when compiling a selection over `table`: children
\* left to right, a comparison's column before its value, the lookup of an
\* Exists before its nested selection
RECURSIVE SelectionEvent(_, _)
RECURSIVE SelectionEventFrom(_, _, _)
SelectionEventFrom(expressions, table, i) ==
    IF i > Len(expressions) THEN None
    ELSE FirstOf(SelectionEvent(expressions[i], table),
                 SelectionEventFrom(expressions, table, i + 1))

SelectionEvent(expression, table) ==
    CASE expression.k \in {"And", "Or"} ->
            SelectionEventFrom(expression.expressions, table, 1)
      [] expression.k = "Not" -> SelectionEvent(expression.expression, table)
      [] expression.k = "Exists" ->
            IF expression.in_table.k = "RelatedTable"
              THEN IF DeclaredOn(table, expression.in_table.relationship)
                     THEN SelectionEvent(
                             expression.selection,
                             DeclaredRelationship(
                                table, expression.in_table.relationship).target_table)
                     ELSE LookupEvent(table, expression.in_table.relationship)
              ELSE SelectionEvent(expression.selection, expression.in_table.table)
      [] OTHER ->
            IF HasPath(expression) THEN ErrorEvent(PathError(expression))
            ELSE IF ComparesColumns(expression)
              THEN ErrorEvent(RightHandError(expression))
            ELSE None

\* the first error met in an order_by relations map: per relation its
\* lookup, then its sub-relations, then its selection (compiled over the
\* table the relation starts from)
RECURSIVE RelationsEvent(_, _, _)
RelationsEvent(relations, table, i) ==
    IF i > Len(relations) THEN None
    ELSE FirstOf(
            IF DeclaredOn(table, relations[i].k)
              THEN FirstOf(
                      RelationsEvent(
                         relations[i].v.subrelations,
                         DeclaredRelationship(table, relations[i].k).target_table,
                         1),
                      IF relations[i].v.selection.some
                        THEN SelectionEvent(relations[i].v.selection.v, table)
                        ELSE None)
              ELSE LookupEvent(table, relations[i].k),
            RelationsEvent(relations, table, i + 1))

\* the order_by, then the selection, of a row or aggregate sub-query
OrderThenSelectionEvent(query, table) ==
    FirstOf(IF query.order_by.some
              THEN RelationsEvent(query.order_by.v.relations, table, 1) ELSE None,
            IF query.selection.some
              THEN SelectionEvent(query.selection.v, table) ELSE None)

\* the panic of the window sum, where the build checks overflow
WindowEvent(limit, offset) ==
    IF overflow_checks /\ Exceeds(limit, offset) THEN PanicEvent ELSE None

\* the first error or panic met when compiling a query node: its rows
\* sub-query (order_by, selection, relationship fields in field order, each
\* with its lookup and then its own node, window), then its aggregates
\* sub-query (order_by, selection, window)
RECURSIVE NodeEvent(_, _)
RECURSIVE FieldsEvent(_, _, _)
FieldsEvent(fields, table, i) ==
    IF i > Len(fields) THEN None
    ELSE FirstOf(
            IF DeclaredOn(table, fields[i].v.relationship)
              THEN NodeEvent(fields[i].v.query,
                             DeclaredRelationship(
                                table, fields[i].v.relationship).target_table)
              ELSE LookupEvent(table, fields[i].v.relationship),
            FieldsEvent(fields, table, i + 1))

NodeEvent(query, table) ==
    FirstOf(
       IF query.fields.some
         THEN FirstOf(OrderThenSelectionEvent(query, table),
                      FirstOf(FieldsEvent(RelationshipFields(query), table, 1),
                              WindowEvent(query.limit, query.offset)))
         ELSE None,
       IF query.aggregates.some
         THEN FirstOf(OrderThenSelectionEvent(query, table),
                      WindowEvent(query.aggregates_limit, query.offset))
         ELSE None)

RequestEvent == NodeEvent(RootQuery, builder.request.table)

\* C15: when compiling some part of the request fails (a nested
\* relationship sub-query, an order-by relation, a selection, an EXISTS at
\* any depth), build_sql_statement returns the first error met in compile
\* order, unchanged, and nothing else: no statement, no partial SQL; a
\* request with no failing part compiles.
C15_FirstErrorPropagates ==
    pc = "done" =>
       /\ (RequestEvent.some /\ ~RequestEvent.v.panic) =>
             statement = [kind |-> "Err", err |-> RequestEvent.v.err]
       /\ ~RequestEvent.some => statement.kind = "Ok"
       /\ Failed => (RequestEvent.some /\ ~RequestEvent.v.panic)

\* a request with three failing parts: a relation of its order_by, its
\* selection and a relationship field; the order_by's error is returned
C15_Witness ==
    /\ Failed
    /\ RootQuery.fields.some
    /\ RootQuery.order_by.some
    /\ RootQuery.selection.some
    /\ RelationsEvent(RootQuery.order_by.v.relations, Users, 1).some
    /\ SelectionEvent(RootQuery.selection.v, Users).some
    /\ FieldsEvent(RelationshipFields(RootQuery), Users, 1).some
    /\ SelectionEvent(RootQuery.selection.v, Users)
          # RelationsEvent(RootQuery.order_by.v.relations, Users, 1)
    /\ statement.err = RelationsEvent(RootQuery.order_by.v.relations, Users, 1).v.err

-----------------------------------------------------------------------------
(* And, Or, Not: C16 *)

\* every sub-expression of a selection, with the table it is compiled over
RECURSIVE SubSelections(_, _)
SubSelections(expression, table) ==
    {[expression |-> expression, table |-> table]}
    \cup
    CASE expression.k \in {"And", "Or"} ->
            UNION {SubSelections(expression.expressions[i], table) :
                      i \in 1..Len(expression.expressions)}
      [] expression.k = "Not" -> SubSelections(expression.expression, table)
      [] expression.k = "Exists" ->
            SubSelections(
               expression.selection,
               IF expression.in_table.k = "RelatedTable"
                 THEN DeclaredRelationship(
                         table, expression.in_table.relationship).target_table
                 ELSE expression.in_table.table)
      [] OTHER -> {}

\* the And, Or and Not of the selections that compile
ReducedSelections ==
    {x \in UNION {SubSelections(s, Users) : s \in UserSelections} :
        x.expression.k \in {"And", "Or", "Not"}}

\* the results of the children compiled one after the other, the builder
\* and the counter of each handed to the next
RECURSIVE ChildResults(_, _, _, _, _, _, _, _)
ChildResults(st, exists_index, expressions, i, origin, table_alias, table, acc) ==
    IF i > Len(expressions) THEN acc
    ELSE LET r == selection_expression(st, expressions[i], exists_index, origin,
                                       table_alias, table)
         IN ChildResults(r.st, r.val.exists_index, expressions, i + 1, origin,
                         table_alias, table, Append(acc, r))

\* e1 op e2 op ... op en, grouped from the left
RECURSIVE LeftFold(_, _, _)
LeftFold(exprs, op, n) ==
    IF n = 1 THEN exprs[1]
    ELSE BinaryOp(LeftFold(exprs, op, n - 1), op, exprs[n])

RECURSIVE JoinsUpTo(_, _)
JoinsUpTo(results, n) ==
    IF n = 0 THEN <<>> ELSE JoinsUpTo(results, n - 1) \o results[n].val.joins

Parenthesised(expr, op) ==
    IF expr.e = "BinaryOp" /\ expr.op = op THEN Nested(expr) ELSE expr

\* the rule for one And / Or / Not compiled in one mode; single_child_bare:
\* the expression of a single child is returned as it is, never parenthesised
ReductionRule(x, origin, single_child_bare) ==
    LET r == selection_expression(builder, x.expression, 0, origin, "_origin",
                                  x.table)
    IN IF x.expression.k = "Not"
         THEN LET child == selection_expression(builder, x.expression.expression,
                                                0, origin, "_origin", x.table)
              IN /\ r.ok
                 /\ r.val.expr = UnaryOp("Not", child.val.expr)
                 /\ r.val.joins = child.val.joins
         ELSE LET children == ChildResults(builder, 0, x.expression.expressions, 1,
                                           origin, "_origin", x.table, <<>>)
                  exprs == [i \in 1..Len(children) |-> children[i].val.expr]
              IN /\ r.ok
                 /\ r.val.joins = JoinsUpTo(children, Len(children))
                 /\ r.val.expr =
                       IF Len(children) = 0
                         THEN ValueExpr(VBoolean(x.expression.k = "And"))
                       ELSE IF Len(children) = 1 /\ single_child_bare
                         THEN exprs[1]
                       ELSE Parenthesised(
                               LeftFold(exprs,
                                        IF x.expression.k = "And" THEN "And"
                                                                  ELSE "Or",
                                        Len(exprs)),
                               IF x.expression.k = "And" THEN "And" ELSE "Or")

\* the WHERE of the row sub-query of the root node
RootRowPredicate ==
    DerivedIn(DerivedIn(RootNode.from, "_rows").v.from, "_row").v.predicate

\* what the request's own selection compiles to is the WHERE that is emitted
EmittedSelection ==
    (Compiled /\ RootQuery.fields.some /\ RootQuery.selection.some
       /\ ~RootQuery.order_by.some) =>
          RootRowPredicate =
             Some(selection_expression(
                     QueryBuilderNew(builder.request, builder.bind_params),
                     RootQuery.selection.v, 0, TRUE, "_origin", Users).val.expr)

\* C16 as stated: And and Or reduce their children pairwise, left to right,
\* with their operator, the joins being the children's joins concatenated in
\* child order; an empty And is TRUE and an empty Or FALSE, without joins; a
\* result whose top operator is the folded one is put in parentheses; a
\* single child is returned as that child's expression; Not negates the
\* child's expression and passes its joins on unchanged.
C16_AndOrNot ==
    /\ EmittedSelection
    /\ \A x \in ReducedSelections, origin \in BOOLEAN : ReductionRule(x, origin, TRUE)

\* C16 amended: the same, except that the expression of a single child is
\* put in parentheses too when its top operator is the folded one (an And
\* whose only child is an EXISTS compiled in non-origin mode).
C16_AndOrNotParenthesised ==
    /\ EmittedSelection
    /\ \A x \in ReducedSelections, origin \in BOOLEAN : ReductionRule(x, origin, FALSE)

\* Or over two comparisons and an And of three children, one an EXISTS: the
\* emitted WHERE is ((a OR b) OR ((c AND d) AND e)) in parentheses
C16_Witness ==
    /\ Compiled
    /\ RootQuery.fields.some
    /\ RootQuery.selection.some
    /\ RootQuery.selection.v.k = "Or"
    /\ Len(RootQuery.selection.v.expressions) = 3
    /\ RootRowPredicate.some
    /\ RootRowPredicate.v.e = "Nested"
    /\ RootRowPredicate.v.expr.op = "Or"
    /\ RootRowPredicate.v.expr.left.op = "Or"
    /\ RootRowPredicate.v.expr.right.e = "Nested"
    /\ RootRowPredicate.v.expr.right.expr.left.op = "And"

-----------------------------------------------------------------------------
(* EXISTS: C17, C18 *)

\* the EXISTS of a selection that are not below another EXISTS, in the
\* order the compile meets them
RECURSIVE TopExists(_)
RECURSIVE TopExistsOfAll(_, _)
TopExistsOfAll(expressions, i) ==
    IF i > Len(expressions) THEN <<>>
    ELSE TopExists(expressions[i]) \o TopExistsOfAll(expressions, i + 1)

TopExists(expression) ==
    CASE expression.k \in {"And", "Or"} -> TopExistsOfAll(expression.expressions, 1)
      [] expression.k = "Not" -> TopExists(expression.expression)
      [] expression.k = "Exists" -> <<expression>>
      [] OTHER -> <<>>

\* the number of EXISTS of a selection, at any depth
RECURSIVE ExistsCount(_)
RECURSIVE ExistsCountOfAll(_, _)
ExistsCountOfAll(expressions, i) ==
    IF i > Len(expressions) THEN 0
    ELSE ExistsCount(expressions[i]) + ExistsCountOfAll(expressions, i + 1)

ExistsCount(expression) ==
    CASE expression.k \in {"And", "Or"} -> ExistsCountOfAll(expression.expressions, 1)
      [] expression.k = "Not" -> ExistsCount(expression.expression)
      [] expression.k = "Exists" -> 1 + ExistsCount(expression.selection)
      [] OTHER -> 0

\* the aliases _exists_0, _exists_1, ... of a scope with at most n EXISTS
ExistsAliases(n) == {Quoted("_exists_" \o ToString(i)) : i \in 0..n}

\* the joins of a FROM clause that are derived tables aliased _exists_<n>
ExistsJoins(from, n) ==
    SelectSeq(from[1].joins,
              LAMBDA j : /\ j.relation.t = "Derived"
                         /\ j.relation.alias.some
                         /\ j.relation.alias.v \in ExistsAliases(n))

\* does the boolean expression `expr` have `part` as one of its operands
RECURSIVE HasOperand(_, _)
HasOperand(expr, part) ==
    \/ expr = part
    \/ /\ expr.e = "BinaryOp"
       /\ expr.op \in {"And", "Or"}
       /\ (HasOperand(expr.left, part) \/ HasOperand(expr.right, part))
    \/ /\ expr.e \in {"Nested", "UnaryOp"}
       /\ HasOperand(expr.expr, part)

\* <alias>.<target> = <parent>.<source> over the column mapping, ANDed, in
\* parentheses when there are several, TRUE when there is none
Correlation(mapping, alias, parent) ==
    LET on == ConjunctionOf(
                 [i \in 1..Len(mapping) |->
                    BinaryOp(CompoundIdentifier(<<Quoted(alias),
                                                  Quoted(mapping[i].v)>>),
                             "Eq",
                             CompoundIdentifier(<<Quoted(parent),
                                                  Quoted(mapping[i].k)>>))],
                 Len(mapping))
    IN IF Len(mapping) > 1 THEN Nested(on) ELSE on

\* the origin-mode rule for the selection `selection` over `table`, emitted
\* as the WHERE and the joins of the sub-query `row`
OriginExistsRule(row, selection, table) ==
    LET top == TopExists(selection)
        joins == ExistsJoins(row.from, ExistsCount(selection))
    IN /\ Len(joins) = Len(top)
       /\ \A i \in 1..Len(top) :
             LET alias == "_exists_" \o ToString(i - 1)
                 sub == joins[i].relation.subquery
                 related == top[i].in_table.k = "RelatedTable"
                 relationship ==
                     DeclaredRelationship(table, top[i].in_table.relationship)
                 target == IF related THEN relationship.target_table
                                      ELSE top[i].in_table.table
             IN /\ joins[i].relation.alias = Some(Quoted(alias))
                /\ joins[i].join_operator.j = "LeftOuter"
                /\ Len(sub.from) = 1
                /\ sub.from[1].relation =
                      TableFactorTable(ObjectNameQuoted(target), Some(Quoted(alias)))
                /\ IF related
                     THEN /\ sub.projection =
                                [m \in 1..Len(relationship.column_mapping) |->
                                   ExprWithAlias(
                                      CompoundIdentifier(
                                         <<Quoted(alias),
                                           Quoted(relationship.column_mapping[m].v)>>),
                                      Quoted(relationship.column_mapping[m].v))]
                          /\ sub.group_by =
                                [m \in 1..Len(relationship.column_mapping) |->
                                   CompoundIdentifier(
                                      <<Quoted(alias),
                                        Quoted(relationship.column_mapping[m].v)>>)]
                          /\ sub.limit = None
                          /\ joins[i].join_operator.on =
                                Correlation(relationship.column_mapping, alias,
                                            "_origin")
                          /\ HasOperand(row.predicate.v,
                                        Correlation(relationship.column_mapping,
                                                    alias, "_origin"))
                     ELSE /\ sub.projection =
                                <<ExprWithAlias(ValueExpr(VBoolean(TRUE)),
                                                Quoted("_exists"))>>
                          /\ sub.group_by = <<>>
                          /\ sub.limit = Some(ValueExpr(VNumber(U64(1))))
                          /\ joins[i].join_operator.on = ValueExpr(VBoolean(TRUE))
                          /\ HasOperand(
                                row.predicate.v,
                                BinaryOp(CompoundIdentifier(<<Quoted(alias),
                                                              Quoted("_exists")>>),
                                         "Eq", ValueExpr(VBoolean(TRUE))))
                \* the nested selection: non-origin mode, counter from 0
                /\ sub.predicate.some
                /\ Len(sub.from[1].joins) = ExistsCount(top[i].selection)
                /\ \A j \in 1..Len(sub.from[1].joins) :
                      /\ sub.from[1].joins[j].relation.t = "Table"
                      /\ sub.from[1].joins[j].join_operator.j = "LeftOuter"
                /\ Len(sub.from[1].joins) > 0 =>
                      sub.from[1].joins[1].relation.alias
                         = Some(Quoted(alias \o ".0"))

\* the row sub-query below the rows and below the aggregates of the root
RootRow == DerivedIn(DerivedIn(RootNode.from, "_rows").v.from, "_row").v
RootAggregateRow == DerivedIn(DerivedIn(RootNode.from, "_aggregates").v.from, "_row").v

\* C17: for every EXISTS at the top level of a selection (origin mode) there
\* is exactly one LEFT OUTER JOIN of a derived sub-query aliased _exists_<n>,
\* n counting the EXISTS of the scope from 0 in the order they are met,
\* through And / Or / Not, so that the aliases of a scope are distinct; the
\* sub-query projects _exists := TRUE with LIMIT 1 for an unrelated table and
\* projects and groups by the target columns of the mapping for a related
\* one, and the nested selection is compiled in non-origin mode with its
\* own counter from 0.
C17_OriginExists ==
    (Compiled /\ RootQuery.selection.some) =>
       /\ RootQuery.fields.some =>
             OriginExistsRule(RootRow, RootQuery.selection.v, Users)
       /\ RootQuery.aggregates.some =>
             OriginExistsRule(RootAggregateRow, RootQuery.selection.v, Users)

\* an Or of two EXISTS over related tables, the first with an EXISTS below it
C17_Witness ==
    /\ Compiled
    /\ RootQuery.fields.some
    /\ RootQuery.selection.some
    /\ Len(TopExists(RootQuery.selection.v)) = 2
    /\ ExistsCount(RootQuery.selection.v) = 3
    /\ Len(ExistsJoins(RootRow.from, 3)) = 2
    /\ ExistsJoins(RootRow.from, 3)[2].relation.alias = Some(Quoted("_exists_1"))

\* the EXISTS of the selections that compile, each with the table it is
\* compiled over
ExistsSelections ==
    {x \in UNION {SubSelections(s, Users) : s \in UserSelections} :
        x.expression.k = "Exists"}

\* the table an EXISTS over `table` reads
ExistsTarget(expression, table) ==
    IF expression.in_table.k = "RelatedTable"
      THEN DeclaredRelationship(table, expression.in_table.relationship).target_table
      ELSE expression.in_table.table

\* the equality predicate of an EXISTS joined as `alias` below `parent`
ExistsEquality(expression, table, alias, parent) ==
    IF expression.in_table.k = "RelatedTable"
      THEN Correlation(
              DeclaredRelationship(table,
                                   expression.in_table.relationship).column_mapping,
              alias, parent)
      ELSE BinaryOp(CompoundIdentifier(<<Quoted(alias), Quoted("_exists")>>),
                    "Eq", ValueExpr(VBoolean(TRUE)))

\* the ON of the join of an EXISTS
ExistsOn(expression, table, alias, parent) ==
    IF expression.in_table.k = "RelatedTable"
      THEN ExistsEquality(expression, table, alias, parent)
      ELSE ValueExpr(VBoolean(TRUE))

\* the non-origin rule for the EXISTS x compiled below `parent` with the
\* counter at n
NestedExistsRule(x, parent, n) ==
    LET alias == parent \o "." \o ToString(n)
        target == ExistsTarget(x.expression, x.table)
        r == selection_expression(builder, x.expression, n, FALSE, parent, x.table)
        nested == selection_expression(builder, x.expression.selection, n + 1,
                                       FALSE, alias, target)
    IN /\ r.ok
       /\ r.val.expr =
             BinaryOp(ExistsEquality(x.expression, x.table, alias, parent),
                      "And", nested.val.expr)
       /\ r.val.joins =
             <<Join(TableFactorTable(ObjectNameQuoted(target), Some(Quoted(alias))),
                    LeftOuterOn(ExistsOn(x.expression, x.table, alias, parent)))>>
                \o nested.val.joins
       /\ r.val.exists_index = n + ExistsCount(x.expression)
       \* everything below is non-origin too: one plain join per EXISTS, the
       \* next one numbered n + 1 below this one's alias
       /\ Len(r.val.joins) = ExistsCount(x.expression)
       /\ \A j \in 1..Len(r.val.joins) :
             /\ r.val.joins[j].relation.t = "Table"
             /\ r.val.joins[j].join_operator.j = "LeftOuter"
       /\ Len(r.val.joins) > 1 =>
             r.val.joins[2].relation.alias =
                Some(Quoted(alias \o "." \o ToString(n + 1)))

\* C18: an EXISTS compiled in non-origin mode takes the alias
\* <table_alias>.<N> from the enclosing counter, which is passed on without
\* a reset to the EXISTS below it, joins the target table itself as a plain
\* LEFT OUTER JOIN under that alias, returns <equality predicate> AND
\* <nested selection>, its own join before the joins of the nested
\* selection, and everything below it is compiled in non-origin mode too.
C18_NestedExists ==
    /\ \A x \in ExistsSelections, parent \in {"_exists_0", "_origin.1"}, n \in 0..1 :
          NestedExistsRule(x, parent, n)
    /\ (Compiled /\ RootQuery.fields.some /\ RootQuery.selection.some) =>
          \A i \in 1..Len(TopExists(RootQuery.selection.v)) :
             LET top == TopExists(RootQuery.selection.v)[i]
                 alias == "_exists_" \o ToString(i - 1)
                 sub == ExistsJoins(RootRow.from,
                                    ExistsCount(RootQuery.selection.v))[i]
                           .relation.subquery
                 target == ExistsTarget(top, Users)
             IN top.selection.k = "Exists" =>
                   /\ sub.from[1].joins[1] =
                         Join(TableFactorTable(
                                 ObjectNameQuoted(ExistsTarget(top.selection, target)),
                                 Some(Quoted(alias \o ".0"))),
                              LeftOuterOn(ExistsOn(top.selection, target,
                                                   alias \o ".0", alias)))
                   /\ sub.predicate.v.e = "BinaryOp"
                   /\ sub.predicate.v.op = "And"
                   /\ sub.predicate.v.left =
                         ExistsEquality(top.selection, target, alias \o ".0", alias)

\* EXISTS(orders, EXISTS(items, qty = 2)): items is joined as _exists_0.0
\* inside the _exists_0 sub-query
C18_Witness ==
    /\ Compiled
    /\ RootQuery.fields.some
    /\ RootQuery.selection.some
    /\ Len(TopExists(RootQuery.selection.v)) > 0
    /\ TopExists(RootQuery.selection.v)[1].selection.k = "Exists"
    /\ ExistsJoins(RootRow.from, 3)[1].relation.subquery.from[1].joins[1].relation
          = TableFactorTable(ObjectNameQuoted(Items), Some(Quoted("_exists_0.0")))


-----------------------------------------------------------------------------
(* Ordering by related tables: C19, C20 *)

\* the relations of an order_by tree, each with its path from the root
RECURSIVE RelationsAt(_, _, _)
RelationsAt(relations, path, i) ==
    IF i > Len(relations) THEN {}
    ELSE LET child_path == path \o <<relations[i].k>>
         IN {[path |-> child_path, relation |-> relations[i].v]}
            \cup RelationsAt(relations[i].v.subrelations, child_path, 1)
            \cup RelationsAt(relations, path, i + 1)

OrderRelations(order_by) == RelationsAt(order_by.relations, <<>>, 1)

OrdAlias(path) == "_ord." \o JoinStrings(path, ".")

\* the relations of the root order_by whose selection has an Exists
ExistsOrderRelations ==
    {r \in OrderRelations(RootQuery.order_by.v) :
        /\ r.relation.selection.some
        /\ ExistsCount(r.relation.selection.v) > 0}

\* every join of the _ord.<path> sub-query in `from` is a plain LEFT OUTER
\* JOIN of a table aliased _origin.<N>, one per Exists of the selection
PlainExistsJoins(from, r) ==
    LET sub == DerivedIn(from, OrdAlias(r.path))
    IN /\ sub.some
       /\ Len(sub.v.from[1].joins) = ExistsCount(r.relation.selection.v)
       /\ \A j \in 1..Len(sub.v.from[1].joins) :
             /\ sub.v.from[1].joins[j].relation.t = "Table"
             /\ sub.v.from[1].joins[j].relation.alias =
                   Some(Quoted("_origin." \o ToString(j - 1)))
             /\ sub.v.from[1].joins[j].join_operator.j = "LeftOuter"
       /\ sub.v.predicate.some

\* C19: the selection attached to an OrderByRelation is compiled in
\* non-origin mode: an Exists inside it becomes a plain LEFT OUTER JOIN of the
\* target table aliased <table_alias>.<N>, ANDed into the WHERE of the
\* _ord.<path> sub-query, and never a derived _exists_<N> sub-query.
C19_OrderBySelectionNonOrigin ==
    (Compiled /\ RootQuery.order_by.some /\ RootQuery.fields.some) =>
       \A r \in ExistsOrderRelations : PlainExistsJoins(RootRow.from, r)


\* the elements of the root order_by that order by a related table
RelatedElements ==
    {RootQuery.order_by.v.elements[i] :
        i \in {j \in 1..Len(RootQuery.order_by.v.elements) :
                  Len(RootQuery.order_by.v.elements[j].target_path) > 0}}

\* `from` has the derived table _ord.<p> of the element, projecting the
\* column alias the ORDER BY expression of the element references
OrdTableFor(from, element) ==
    LET sub == DerivedIn(from, OrdAlias(element.target_path))
    IN /\ sub.some
       /\ ItemIn(sub.v.projection, OrdColumnAlias(element.target)).some

\* C20: for every order-by element with a non-empty target_path p, the FROM
\* of the row sub-query, and of the aggregate sub-query, has a derived table
\* aliased _ord.<p joined by '.'> that projects the column alias the ORDER BY
\* expression references, for every request that compiles, also when p is
\* not a path of the order-by relations tree.
C20_OrdTableForEveryElement ==
    (Compiled /\ RootQuery.order_by.some) =>
       \A element \in RelatedElements :
          /\ RootQuery.fields.some => OrdTableFor(RootRow.from, element)
          /\ RootQuery.aggregates.some =>
                OrdTableFor(RootAggregateRow.from, element)


-----------------------------------------------------------------------------
(* ORDER BY expressions: C21 *)

StringResultTypes == {"String", "FixedString"}
NullResultTypes ==
    {"Bool", "Date", "Date32", "DateTime", "DateTime64", "Json", "Uuid",
     "IPv4", "IPv6", "Complex"}

\* the default an aggregate of the result type sorts on
SortDefault(result_type) ==
    IF result_type \in StringResultTypes THEN VString("")
    ELSE IF result_type \in NullResultTypes THEN VNull
    ELSE VNumber(U64(0))

Coalesce(column, default) ==
    FunctionExpr(<<Unquoted("COALESCE")>>, <<column, ValueExpr(default)>>,
                 None, FALSE)

\* the ORDER BY expression of an element read on table_alias.column_alias
SortExpression(table_alias, column_alias, element) ==
    LET col == CompoundIdentifier(<<Quoted(table_alias), Quoted(column_alias)>>)
    IN [expr |-> CASE element.target.k = "Column" -> col
                   [] element.target.k = "StarCountAggregate" ->
                         Coalesce(col, VNumber(U64(0)))
                   [] element.target.k = "SingleColumnAggregate" ->
                         Coalesce(col, SortDefault(element.target.result_type)),
        asc |-> Some(element.order_direction = "Asc"),
        nulls_first |-> Some(element.order_direction # "Asc")]

\* the alias pair an element of the root order_by is read on
SortTableAlias(element) ==
    IF Len(element.target_path) = 0 THEN "_origin"
    ELSE OrdAlias(element.target_path)
SortColumnAlias(element) ==
    IF element.target.k = "Column" /\ Len(element.target_path) = 0
      THEN element.target.column
      ELSE OrdColumnAlias(element.target)

SortExpressions(order_by) ==
    [i \in 1..Len(order_by.elements) |->
        SortExpression(SortTableAlias(order_by.elements[i]),
                       SortColumnAlias(order_by.elements[i]),
                       order_by.elements[i])]

SortTargets ==
    {[k |-> "Column", column |-> "name"], [k |-> "StarCountAggregate"]}
    \cup {[k |-> "SingleColumnAggregate", column |-> "qty", function |-> f,
           result_type |-> t] : f \in {"Sum", "Max"}, t \in ScalarTypes}

\* the ORDER BY of the _rn window of a row sub-query
WindowOrderBy(row) == ItemIn(row.projection, "_rn").v.over.v.order_by

\* C21: the ORDER BY expression of an element is the bare column for a
\* Column target, COALESCE(col, 0) for StarCountAggregate and COALESCE(col,
\* default) for SingleColumnAggregate, with default 0 for every numeric
\* result type, '' for the string types and NULL for every other type; Asc is
\* ASC NULLS LAST, Desc is DESC NULLS FIRST; the expressions keep the order
\* of the request's elements.
C21_OrderByExpressions ==
    /\ StringResultTypes \cup NullResultTypes \subseteq ScalarTypes
    /\ \A target \in SortTargets, direction \in {"Asc", "Desc"},
          path \in {<<>>, <<"orders">>} :
          LET element == Element(path, target, direction)
          IN order_by_expr(SortTableAlias(element), SortColumnAlias(element),
                           element)
                = SortExpression(SortTableAlias(element),
                                 SortColumnAlias(element), element)
    /\ (Compiled /\ RootQuery.order_by.some) =>
          /\ RootQuery.fields.some =>
                WindowOrderBy(RootRow) = SortExpressions(RootQuery.order_by.v)
          /\ RootQuery.aggregates.some =>
                WindowOrderBy(RootAggregateRow)
                   = SortExpressions(RootQuery.order_by.v)

\* two elements, a Sum aggregate ascending then a column descending, sorted
\* in that order
C21_Witness ==
    /\ Compiled
    /\ RootQuery.order_by.some
    /\ RootQuery.fields.some
    /\ Len(RootQuery.order_by.v.elements) = 2
    /\ RootQuery.order_by.v.elements[1].target.k = "SingleColumnAggregate"
    /\ RootQuery.order_by.v.elements[2].order_direction = "Desc"
    /\ WindowOrderBy(RootRow)[1].expr.e = "Function"
    /\ WindowOrderBy(RootRow)[2].nulls_first = Some(TRUE)


-----------------------------------------------------------------------------
(* Relationship fields: C22 *)

\* the row sub-query of a query sub-query
RowOf(node) == DerivedIn(DerivedIn(node.from, "_rows").v.from, "_row").v

RelAlias(alias) == "_rel." \o alias

\* ON _origin.<src> = _rel.<alias>."_selection.<tgt>" AND ..., in mapping
\* order; TRUE for an empty mapping
RelationshipOn(mapping, alias) ==
    ConjunctionOf(
       [m \in 1..Len(mapping) |->
          BinaryOp(CompoundIdentifier(<<Quoted("_origin"), Quoted(mapping[m].k)>>),
                   "Eq",
                   CompoundIdentifier(<<Quoted(RelAlias(alias)),
                                        Quoted("_selection." \o mapping[m].v)>>))],
       Len(mapping))

\* the joins of a FROM whose alias starts a relationship field's
RelJoins(from) ==
    SelectSeq(from[1].joins,
              LAMBDA j : /\ j.relation.alias.some
                         /\ Len(j.relation.alias.v.value) > 5
                         /\ SubSeq(j.relation.alias.v.value, 1, 5) = "_rel.")

\* the sub-query of a relationship field: over the target table, passing the
\* target columns through in mapping order, without foreach
NestedOverTarget(nested, relationship, query) ==
    LET cols == [m \in 1..Len(relationship.column_mapping) |->
                    relationship.column_mapping[m].v]
    IN /\ Len(nested.projection) = 1 + Len(cols)
       /\ nested.projection[1].alias = Quoted("query")
       /\ \A m \in 1..Len(cols) :
             nested.projection[1 + m] =
                ExprWithAlias(
                   CompoundIdentifier(<<Quoted("_selection." \o cols[m])>>),
                   Quoted("_selection." \o cols[m]))
       /\ \A t \in 1..Len(nested.from) : nested.from[t].relation.t = "Derived"
       /\ query.fields.some =>
             /\ RowOf(nested).from[1].relation =
                   TableFactorTable(ObjectNameQuoted(relationship.target_table),
                                    Some(Quoted("_origin")))
             /\ \A m \in 1..Len(cols) :
                   RowOf(nested).projection[m] =
                      ExprWithAlias(
                         CompoundIdentifier(<<Quoted("_origin"), Quoted(cols[m])>>),
                         Quoted("_selection." \o cols[m]))
       /\ ~builder.bind_params =>
             nested = query_subquery(QueryBuilderNew(builder.request, FALSE),
                                     relationship.target_table, cols, query,
                                     None).val

\* the rule at the row sub-query `row` of `query` over `table`, and below
RECURSIVE RelationshipRule(_, _, _)
RelationshipRule(row, query, table) ==
    LET rels == RelationshipFields(query)
    IN /\ Len(RelJoins(row.from)) = Len(rels)
       /\ \A i \in 1..Len(rels) :
             LET alias == rels[i].k
                 field == rels[i].v
                 relationship == DeclaredRelationship(table, field.relationship)
                 join == row.from[1].joins[i]
             IN /\ join.relation.t = "Derived"
                /\ join.relation.alias = Some(Quoted(RelAlias(alias)))
                /\ join.join_operator =
                      LeftOuterOn(RelationshipOn(relationship.column_mapping,
                                                 alias))
                /\ ItemIn(row.projection, "_projection." \o alias) =
                      Some(CompoundIdentifier(<<Quoted(RelAlias(alias)),
                                                Quoted("query")>>))
                /\ NestedOverTarget(join.relation.subquery, relationship,
                                    field.query)
                /\ field.query.fields.some =>
                      RelationshipRule(RowOf(join.relation.subquery),
                                       field.query, relationship.target_table)

\* C22: for every nested relationship field with output alias a, the row
\* sub-query has exactly one LEFT OUTER JOIN of a derived sub-query aliased
\* _rel.a, ON the conjunction in column_mapping order of
\* _origin.<src> = _rel.a."_selection.<tgt>" (TRUE for an empty mapping); the
\* nested sub-query is compiled against the relationship's target table with
\* the target columns as join columns and without foreach; the field's
\* projection is _rel.a."query"; the joins are in the order of the fields.
C22_RelationshipJoins ==
    (Compiled /\ RootQuery.fields.some) =>
       RelationshipRule(RootRow, RootQuery, Users)

\* two relationship fields, the second over a two-column mapping, the first
\* with a relationship field of its own
C22_Witness ==
    /\ Compiled
    /\ RootQuery.fields.some
    /\ Len(RelationshipFields(RootQuery)) = 2
    /\ Len(RelationshipFields(RelationshipFields(RootQuery)[1].v.query)) = 1
    /\ RootRow.from[1].joins[2].relation.alias = Some(Quoted("_rel.written"))
    /\ RootRow.from[1].joins[2].join_operator.on.e = "BinaryOp"
    /\ RootRow.from[1].joins[2].join_operator.on.op = "And"


-----------------------------------------------------------------------------
(* Aggregates: C23 *)

SqlCall(name, args, distinct) == FunctionExpr(<<Unquoted(name)>>, args, None, distinct)

\* the SQL function of a SingleColumn aggregate function; Longest and
\* Shortest are max and min of length
PlainFunctions ==
    {<<"Max", "max">>, <<"Min", "min">>, <<"Sum", "sum">>,
     <<"StddevPop", "stddevPop">>, <<"StddevSamp", "stddevSamp">>,
     <<"VarPop", "varPop">>, <<"VarSamp", "varSamp">>}

ProjectedColumn(alias) ==
    CompoundIdentifier(<<Quoted("_row"), Quoted("_projection." \o alias)>>)

\* the accumulator of the aggregate with output alias `alias`
Accumulator(alias, aggregate) ==
    CASE aggregate.k = "StarCount" -> SqlCall("COUNT", <<Wildcard>>, FALSE)
      [] aggregate.k = "ColumnCount" ->
            SqlCall("COUNT", <<ProjectedColumn(alias)>>, aggregate.distinct)
      [] aggregate.k = "SingleColumn" /\ aggregate.function = "Longest" ->
            SqlCall("max", <<SqlCall("length", <<ProjectedColumn(alias)>>, FALSE)>>,
                    FALSE)
      [] aggregate.k = "SingleColumn" /\ aggregate.function = "Shortest" ->
            SqlCall("min", <<SqlCall("length", <<ProjectedColumn(alias)>>, FALSE)>>,
                    FALSE)
      [] OTHER ->
            SqlCall((CHOOSE p \in PlainFunctions : p[1] = aggregate.function)[2],
                    <<ProjectedColumn(alias)>>, FALSE)

AllAggregates ==
    {StarCount} \cup {ColumnCount("id", d) : d \in BOOLEAN}
    \cup {SingleColumn("age", f, "Int32") :
            f \in {p[1] : p \in PlainFunctions} \cup {"Longest", "Shortest"}}

\* the aggregates sub-query `aggs` over the inner sub-query `row`, for the
\* aggregates of a node
AggregatesRule(aggs, row, aggregates) ==
    /\ ItemIn(aggs.projection, "aggregates") =
          Some(IF Len(aggregates) = 0 THEN SqlCall("map", <<>>, FALSE)
               ELSE SqlCall("tuple",
                            [i \in 1..Len(aggregates) |->
                               Accumulator(aggregates[i].k, aggregates[i].v)],
                            FALSE))
    /\ \A i \in 1..Len(aggregates) :
          ItemIn(row.projection, "_projection." \o aggregates[i].k) =
             IF aggregates[i].v.k = "StarCount" THEN None
             ELSE Some(CompoundIdentifier(<<Quoted("_origin"),
                                            Quoted(aggregates[i].v.column)>>))
    /\ RelJoins(row.from) = <<>>
    /\ \A j \in 1..Len(row.from[1].joins) :
          /\ row.from[1].joins[j].relation.alias.some
          /\ \/ row.from[1].joins[j].relation.alias.v \in ExistsAliases(3)
             \/ SubSeq(row.from[1].joins[j].relation.alias.v.value, 1, 5) = "_ord."

\* C23: for every aggregate with output alias a the aggregates sub-query
\* emits COUNT(*) for StarCount, COUNT([DISTINCT] _row."_projection.a") for
\* ColumnCount, max/min/sum/stddevPop/stddevSamp/varPop/varSamp of
\* _row."_projection.a" for the SingleColumn function of that name and
\* max/min(length(_row."_projection.a")) for Longest/Shortest; the inner
\* aggregate sub-query projects "_projection.a" from _origin.<column> for
\* every ColumnCount and SingleColumn aggregate and for no StarCount; and the
\* aggregate sub-query has no relationship joins.
C23_Aggregates ==
    /\ \A aggregate \in AllAggregates, alias \in {"n", "oldest"} :
          AggregateColumnExpr(alias, aggregate) = Accumulator(alias, aggregate)
    /\ (Compiled /\ RootQuery.aggregates.some) =>
          AggregatesRule(RootAggregates.v, RootAggregateRow,
                         RootQuery.aggregates.v)

\* COUNT(DISTINCT ...), max and max(length(...)) in one node that also has a
\* relationship field
C23_Witness ==
    /\ Compiled
    /\ RootQuery.aggregates.some
    /\ Len(RootQuery.aggregates.v) = 3
    /\ Len(RelationshipFields(RootQuery)) > 0
    /\ ItemIn(RootAggregates.v.projection, "aggregates").v.args[1].distinct
    /\ ItemIn(RootAggregates.v.projection, "aggregates").v.args[3].args[1].e
          = "Function"
    /\ ItemIn(RootAggregateRow.projection, "_projection.longest").some


-----------------------------------------------------------------------------
(* The raw route: C24 *)

EndsWith(s, suffix) ==
    /\ Len(s) >= Len(suffix)
    /\ SubSeq(s, Len(s) - Len(suffix) + 1, Len(s)) = suffix

RawExecuted == pc = "executing" /\ route.some /\ route.v.path = "raw"

\* C24: for every raw request the query sent to the database ends in
\* `FORMAT JSON;`: a query that already contains it is passed through
\* unchanged, a query without any ';' gets ' FORMAT JSON;' appended, and the
\* query sent also ends in `FORMAT JSON;` when the request's query has a ';'
\* before its end, several ';', or `FORMAT JSON;` elsewhere than at its end.
C24_RawEndsInFormatJson ==
    RawExecuted =>
       /\ EndsWith(executed.v, "FORMAT JSON;")
       /\ Contains(route.v.query, "FORMAT JSON;") => executed.v = route.v.query
       /\ ~Contains(route.v.query, ";") =>
             executed.v = route.v.query \o " FORMAT JSON;"


-----------------------------------------------------------------------------
(* Inlined values and the explain route: C25 *)

\* the literal a bound value is inlined as
Inlined(param) ==
    IF param.k = "Number" THEN [e |-> "Value", value |-> [v |-> "Number", n |-> param.number]]
    ELSE CASE param.value.j = "Number" ->
                [e |-> "Value", value |-> [v |-> "Number", n |-> param.value.n]]
           [] param.value.j = "String" ->
                [e |-> "Value",
                 value |-> [v |-> "SingleQuotedString", s |-> param.value.s]]
           [] param.value.j = "Bool" ->
                [e |-> "Value", value |-> [v |-> "Boolean", b |-> param.value.b]]
           [] param.value.j = "Null" -> [e |-> "Value", value |-> [v |-> "Null"]]
           [] param.value.j \in {"Array", "Object"} ->
                [e |-> "Value",
                 value |-> [v |-> "SingleQuotedString", s |-> param.value.text]]

Explained == pc = "executing" /\ route.some /\ route.v.path = "explain"

\* C25: with bind_params = false every bind call inlines its value (numbers
\* as numeric literals, strings as single-quoted strings, booleans as
\* booleans, null as NULL, arrays and objects as their JSON text in a
\* single-quoted string), the emitted statement has no placeholder, and the
\* parameter map and the parameter index stay empty and 0 for the whole
\* compile; the explain route executes exactly 'EXPLAIN ' followed by that
\* statement.
C25_ExplainInlines ==
    /\ \A param \in BoundParams :
          LET fresh == QueryBuilderNew(NoBuilder.request, FALSE)
          IN bind_parameter(fresh, param) = [val |-> Inlined(param), st |-> fresh]
    /\ (route.some /\ route.v.path = "explain") =>
          /\ ~builder.bind_params
          /\ builder.parameters = <<>>
          /\ builder.parameter_index = 0
          /\ executed.some <=> statement.kind = "Ok"
    /\ Explained =>
          /\ Placeholders("query", statement.statement) = <<>>
          /\ executed.v = <<"EXPLAIN ", statement.statement>>
          /\ statement =
                build_sql_statement(route.v.request, FALSE).outcome

\* a request explained whose compile with binding has several placeholders
C25_Witness ==
    /\ Explained
    /\ builder.parameter_index = 0
    /\ executed.v[1] = "EXPLAIN "
    /\ Len(Placeholders("query",
              build_sql_statement(route.v.request, TRUE).outcome.statement)) > 1


-----------------------------------------------------------------------------
(* Order-by joins: C26 *)

\* the edges of a relations tree in depth-first order, an edge before the
\* edges below it: the path of the edge, the path and the table of its
\* parent
RECURSIVE EdgesOf(_, _, _, _)
EdgesOf(relations, path, table, i) ==
    IF i > Len(relations) THEN <<>>
    ELSE LET relationship == DeclaredRelationship(table, relations[i].k)
             child_path == path \o <<relations[i].k>>
         IN <<[path |-> child_path, parent |-> path,
               mapping |-> relationship.column_mapping]>>
            \o EdgesOf(relations[i].v.subrelations, child_path,
                       relationship.target_table, 1)
            \o EdgesOf(relations, path, table, i + 1)

OrdJoins(from) ==
    SelectSeq(from[1].joins,
              LAMBDA j : /\ j.relation.alias.some
                         /\ Len(j.relation.alias.v.value) > 5
                         /\ SubSeq(j.relation.alias.v.value, 1, 5) = "_ord.")

\* ON <parent>.<src> = _ord.<path>."_col.<tgt>" AND ..., in mapping order
EdgeOn(edge) ==
    ConjunctionOf(
       [m \in 1..Len(edge.mapping) |->
          BinaryOp(
             CompoundIdentifier(
                IF Len(edge.parent) = 0
                  THEN <<Quoted("_origin"), Quoted(edge.mapping[m].k)>>
                  ELSE <<Quoted(OrdAlias(edge.parent)),
                         Quoted("_col." \o edge.mapping[m].k)>>),
             "Eq",
             CompoundIdentifier(<<Quoted(OrdAlias(edge.path)),
                                  Quoted("_col." \o edge.mapping[m].v)>>))],
       Len(edge.mapping))

\* how many items of a projection carry the alias
TimesProjected(projection, alias) ==
    Cardinality({i \in 1..Len(projection) :
                    /\ projection[i].s = "ExprWithAlias"
                    /\ projection[i].alias = Quoted(alias)})

\* every projected plain column of the sub-query is grouped by
GroupedByPlainColumns(sub) ==
    \A i \in 1..Len(sub.projection) :
       sub.projection[i].expr.e = "Identifier" =>
          \E g \in 1..Len(sub.group_by) : sub.group_by[g] = sub.projection[i].expr

\* the order-by joins of `from` for the relations tree of order_by
OrderByJoinsRule(from, order_by) ==
    LET edges == EdgesOf(order_by.relations, <<>>, Users, 1)
        joins == OrdJoins(from)
    IN /\ Len(joins) = Len(edges)
       /\ \A i \in 1..Len(edges) :
             /\ joins[i].relation.t = "Derived"
             /\ joins[i].relation.alias = Some(Quoted(OrdAlias(edges[i].path)))
             /\ joins[i].join_operator = LeftOuterOn(EdgeOn(edges[i]))
             /\ GroupedByPlainColumns(joins[i].relation.subquery)
             /\ \A m \in 1..Len(edges[i].mapping) :
                   /\ TimesProjected(joins[i].relation.subquery.projection,
                                     "_col." \o edges[i].mapping[m].v) = 1
                   /\ Len(edges[i].parent) > 0 =>
                         TimesProjected(
                            DerivedIn(from, OrdAlias(edges[i].parent)).v.projection,
                            "_col." \o edges[i].mapping[m].k) = 1

\* C26: order_by_joins walks the relations tree depth-first and emits for
\* each relationship edge one LEFT OUTER JOIN of a grouped sub-query aliased
\* _ord.<path>, placed before all joins of its sub-relations; the ON
\* compares, in column_mapping order, the source key on the parent's alias
\* (_origin.<src> at the root, else _ord.<parent path>."_col.<src>") with
\* _ord.<path>."_col.<tgt>"; every "_col.<c>" an ON refers to, on either
\* side, is projected exactly once by the derived table it is read from, and
\* every non-aggregate projected column is in that table's GROUP BY.
C26_OrderByJoins ==
    (Compiled /\ RootQuery.order_by.some) =>
       /\ RootQuery.fields.some =>
             OrderByJoinsRule(RootRow.from, RootQuery.order_by.v)
       /\ RootQuery.aggregates.some =>
             OrderByJoinsRule(RootAggregateRow.from, RootQuery.order_by.v)

\* orders, orders.items, posts: three joins in that order, the first
\* projecting the ordered column user_id, which is also its join column, once
C26_Witness ==
    /\ Compiled
    /\ RootQuery.order_by.some
    /\ RootQuery.fields.some
    /\ Len(OrdJoins(RootRow.from)) = 3
    /\ OrdJoins(RootRow.from)[2].relation.alias = Some(Quoted("_ord.orders.items"))
    /\ OrdJoins(RootRow.from)[3].relation.alias = Some(Quoted("_ord.posts"))
    /\ OrdJoins(RootRow.from)[3].join_operator.on.op = "And"
    /\ RootQuery.order_by.v.elements[1].target = [k |-> "Column", column |-> "user_id"]
    /\ TimesProjected(OrdJoins(RootRow.from)[1].relation.subquery.projection,
                      "_col.user_id") = 1


-----------------------------------------------------------------------------
(* Row numbers: C27 *)

\* row_number() OVER (PARTITION BY _origin.<c>, ... ORDER BY ...)
RowNumber(columns, order_by) ==
    [e |-> "Function", name |-> <<Unquoted("row_number")>>, args |-> <<>>,
     over |-> Some([partition_by |->
                       [i \in 1..Len(columns) |->
                          CompoundIdentifier(<<Quoted("_origin"),
                                               Quoted(columns[i])>>)],
                    order_by |-> order_by]),
     distinct |-> FALSE]

SortOf(query) ==
    IF query.order_by.some THEN SortExpressions(query.order_by.v) ELSE <<>>

\* the columns of _origin that `grouped` groups by, read through the
\* projection of its _row sub-query
GroupedOriginColumns(grouped) ==
    LET row == DerivedIn(grouped.from, "_row").v
    IN {ItemIn(row.projection, grouped.group_by[g].idents[2].value) :
           g \in 1..Len(grouped.group_by)}

\* the rule at one rows or aggregates sub-query
RowNumberRule(grouped, columns, query) ==
    LET row == DerivedIn(grouped.from, "_row").v
        rn == ItemIn(row.projection, "_rn")
    IN /\ rn = Some(RowNumber(columns, SortOf(query)))
       /\ TimesProjected(row.projection, "_rn") = 1
       /\ \A g \in 1..Len(grouped.group_by) :
             /\ grouped.group_by[g].e = "CompoundIdentifier"
             /\ grouped.group_by[g].idents[1] = Quoted("_row")
       /\ GroupedOriginColumns(grouped) =
             {Some(rn.v.over.v.partition_by[i]) :
                 i \in 1..Len(rn.v.over.v.partition_by)}

\* the rule at a query sub-query compiled with the join columns and the
\* foreach columns, and at the sub-queries of its relationship fields
RECURSIVE PartitionRule(_, _, _, _, _)
PartitionRule(node, query, table, join_cols, foreach_cols) ==
    /\ query.fields.some =>
          /\ RowNumberRule(DerivedIn(node.from, "_rows").v,
                           join_cols \o foreach_cols, query)
          /\ \A i \in 1..Len(RelationshipFields(query)) :
                LET field == RelationshipFields(query)[i].v
                    relationship ==
                       DeclaredRelationship(table, field.relationship)
                IN PartitionRule(
                      RowOf(node).from[1].joins[i].relation.subquery,
                      field.query, relationship.target_table,
                      [m \in 1..Len(relationship.column_mapping) |->
                          relationship.column_mapping[m].v],
                      <<>>)
    /\ query.aggregates.some =>
          RowNumberRule(DerivedIn(node.from, "_aggregates").v,
                        join_cols \o foreach_cols, query)

\* C27: in the row sub-query and in the aggregate sub-query _rn is
\* row_number() OVER (PARTITION BY _origin.<c> for every parent join column
\* followed by every foreach column, ORDER BY the order-by expressions in
\* request order), and the set of partition columns is the set of columns
\* the enclosing rows / aggregates sub-query groups by.
C27_RowNumberPartition ==
    Compiled =>
       PartitionRule(RootNode, RootQuery, Users, <<>>,
                     IF HasForeach THEN ForeachKeys ELSE <<>>)

\* a foreach request ordered by a related table, with a relationship field
\* whose sub-query is partitioned by its join column
C27_Witness ==
    /\ Compiled
    /\ HasForeach
    /\ Len(ForeachKeys) > 0
    /\ RootQuery.order_by.some
    /\ RootQuery.aggregates.some
    /\ Len(RelationshipFields(RootQuery)) = 1
    /\ RelationshipFields(RootQuery)[1].v.query.fields.some
    /\ Len(ItemIn(RootRow.projection, "_rn").v.over.v.partition_by) > 0
    /\ Len(ItemIn(RootRow.projection, "_rn").v.over.v.order_by) > 0
    /\ Len(ItemIn(RowOf(RootRow.from[1].joins[1].relation.subquery).projection,
                  "_rn").v.over.v.partition_by) = 1


-----------------------------------------------------------------------------
(* Table aliases: C28 *)

\* the table factors of a FROM clause, each relation before its joins
RECURSIVE Factors(_)
Factors(from) ==
    IF Len(from) = 0 THEN <<>>
    ELSE <<from[1].relation>>
            \o [j \in 1..Len(from[1].joins) |-> from[1].joins[j].relation]
            \o Factors(Tail(from))

\* the FROM clauses of a query and of every sub-query below it, each as the
\* sequence of its table factors
RECURSIVE FromClauses(_)
FromClauses(query) ==
    {Factors(query.from)}
    \cup UNION {FromClauses(Factors(query.from)[i].subquery) :
                   i \in {j \in 1..Len(Factors(query.from)) :
                             Factors(query.from)[j].t = "Derived"}}

DistinctAliases(factors) ==
    /\ \A i \in 1..Len(factors) : factors[i].alias.some
    /\ \A i, j \in 1..Len(factors) :
          i # j => factors[i].alias.v # factors[j].alias.v

\* C28: for every request that compiles, the table aliases within every FROM
\* clause of the emitted statement are pairwise distinct (the names of the
\* request have no '.'); two EXISTS of one scope, an EXISTS below another
\* and two order-by relations never share an alias.
C28_DistinctAliases ==
    Compiled =>
       \A factors \in FromClauses(statement.statement) : DistinctAliases(factors)

\* an EXISTS sub-query joining three tables below it, one of them below
\* another, in a request ordered by two relations
C28_Witness ==
    /\ Compiled
    /\ RootQuery.fields.some
    /\ RootQuery.order_by.some
    /\ Len(OrdJoins(RootRow.from)) = 3
    /\ Len(ExistsJoins(RootRow.from, 3)) = 1
    /\ \E factors \in FromClauses(statement.statement) :
          /\ Len(factors) = 5
          /\ factors[1].alias = Some(Quoted("_exists_0"))
          /\ factors[2].alias = Some(Quoted("_exists_0.0"))
          /\ factors[3].alias = Some(Quoted("_exists_0.0.1"))
          /\ factors[4].alias = Some(Quoted("_exists_0.2"))
          /\ factors[5].alias = Some(Quoted("_exists_0.3"))


-----------------------------------------------------------------------------
(* Pass-through join columns: C29 *)

\* the pass-through columns a query sub-query projects
PassThrough(node) ==
    {node.projection[i].alias.value :
        i \in {j \in 1..Len(node.projection) :
                  /\ node.projection[j].s = "ExprWithAlias"
                  /\ Len(node.projection[j].alias.value) > 11
                  /\ SubSeq(node.projection[j].alias.value, 1, 11) = "_selection."}}

\* a sub-query in the FROM of `node` projects the column
ExposedInFrom(node, column) ==
    \E i \in 1..Len(Factors(node.from)) :
       /\ Factors(node.from)[i].t = "Derived"
       /\ ItemIn(Factors(node.from)[i].subquery.projection, column).some

\* the rule at a query sub-query and at the sub-queries of its relationship
\* fields
RECURSIVE PassThroughRule(_, _, _)
PassThroughRule(node, query, table) ==
    /\ \A column \in PassThrough(node) : ExposedInFrom(node, column)
    /\ query.fields.some =>
          \A i \in 1..Len(RelationshipFields(query)) :
             LET field == RelationshipFields(query)[i].v
                 relationship == DeclaredRelationship(table, field.relationship)
                 nested == RowOf(node).from[1].joins[i].relation.subquery
             IN /\ PassThrough(nested) =
                      {"_selection." \o relationship.column_mapping[m].v :
                          m \in 1..Len(relationship.column_mapping)}
                /\ PassThroughRule(nested, field.query,
                                   relationship.target_table)

\* C29: for every query sub-query that compiles, each pass-through column
\* "_selection.<col>" it projects for its parent's join is exposed by a
\* sub-query in its own FROM (the rows and / or aggregates sub-query),
\* whether fields and aggregates are present or absent, also for a
\* relationship field whose sub-query has neither fields nor aggregates.
C29_PassThroughExposed ==
    Compiled => PassThroughRule(RootNode, RootQuery, Users)


-----------------------------------------------------------------------------
(* Exists in the selection of an order-by relation: C30 *)

\* the relations of a tree that carry a selection, each with its path and
\* the table its _ord.<path> sub-query scans
RECURSIVE SelectedRelations(_, _, _, _)
SelectedRelations(relations, path, table, i) ==
    IF i > Len(relations) \/ ~DeclaredOn(table, relations[i].k) THEN {}
    ELSE LET relationship == DeclaredRelationship(table, relations[i].k)
             child_path == path \o <<relations[i].k>>
         IN (IF relations[i].v.selection.some
               THEN {[path |-> child_path,
                      target |-> relationship.target_table,
                      selection |-> relations[i].v.selection.v]}
               ELSE {})
            \cup SelectedRelations(relations[i].v.subrelations, child_path,
                                   relationship.target_table, 1)
            \cup SelectedRelations(relations, path, table, i + 1)

RootSelectedRelations ==
    SelectedRelations(RootQuery.order_by.v.relations, <<>>, Users, 1)

\* the Exists over a RelatedTable at the top of a relation's selection, with
\* their positions among the Exists of the selection
RelatedAt(r) ==
    {i \in 1..Len(TopExists(r.selection)) :
        TopExists(r.selection)[i].in_table.k = "RelatedTable"}

\* C30: an Exists over a RelatedTable in the selection of an order-by
\* relation is resolved against the table the _ord.<path> sub-query scans,
\* the relation's target table: the errors TableMissing and
\* RelationshipMissingInTable name the target table and the join columns
\* are those of the target table's relationship, not of the parent table.
C30_ResolvedAgainstTarget ==
    (pc = "done" /\ RootQuery.order_by.some /\ RootQuery.fields.some) =>
       \A r \in RootSelectedRelations : \A i \in RelatedAt(r) :
          LET name == TopExists(r.selection)[i].in_table.relationship
          IN /\ Compiled =>
                   /\ DeclaredOn(r.target, name)
                   /\ ExistsJoins(DerivedIn(RootRow.from, OrdAlias(r.path)).v.from,
                                  3)[i].relation.subquery.from[1].relation.name
                         = ObjectNameQuoted(
                              DeclaredRelationship(r.target, name).target_table)
             /\ (Failed /\ statement.err.kind = "RelationshipMissingInTable"
                        /\ statement.err.relationship = name) =>
                   statement.err.table = r.target
             /\ DeclaredOn(r.target, name) => ~Failed

=============================================================================
